---- MODULE Spec2Model ----
(***************************************************************************)
(* Model of the Prism driver's client registry, shared ring buffer, I/O    *)
(* engine and routing control path (src/src/driver.rs).                    *)
(***************************************************************************)
EXTENDS Integers, Sequences, FiniteSets, TLC

(***************************************************************************)
(* Sizes.  The driver uses 4096 slots, a 64-channel bus and a ring of      *)
(* 65536 frames; the model keeps the code's arithmetic and scales them.    *)
(***************************************************************************)
MAX_CLIENTS == 2

num_channels == 4

BufferFrames == 2

MaxFrames == 2

MaxTime == 2

MaxClientId == 3

MaxPid == 2

\* The ClientWrite calls of an interleaved run.
MaxWrites == 2

\* The longest I/O cycle of the runs with cycles longer than the ring.
MaxBurst == 4

\* The width in bits of a byte (8 in the driver); a 32-bit word is four of them.
ByteBits == 2

\* The width in bits of client_count (32 in the driver).
CountWidth == 3

\* The StartIO calls and the StopIO calls of a run.
MaxIOCalls == 3

\* The readings of the host clock (mach_absolute_time), never 0.
MaxHostTime == 3

\* The config's zero_timestamp_period (1024 in the driver), in frames.
zero_timestamp_period == 2

kAudioHardwareIllegalOperationError == 1852797029

kAudioHardwareBadPropertySizeError == 561211770

kAudioHardwareUnknownPropertyError == 2003332927

\* 'rout' and 'clnt'
kAudioPrismPropertyRoutingTable == 1919907188

kAudioPrismPropertyClientList == 1668050548

VARIABLES client_slots, loopback_buffer, last, calls, hist, device

vars == <<client_slots, loopback_buffer, last, calls, hist, device>>

SlotIds == 0 .. (MAX_CLIENTS - 1)

ClientIds == 0 .. MaxClientId

Pids == 1 .. MaxPid

RoutePids == (-1) .. (MaxPid + 1)

Offsets == 0 .. num_channels

Times == 0 .. MaxTime

FrameCounts == 0 .. MaxFrames

buffer_len == BufferFrames * num_channels

ClientSlot == [client_id |-> 0, channel_offset |-> 0, pid |-> 0, last_write_time |-> 0]

\* idx = (client_id as usize) & (MAX_CLIENTS - 1)
SlotIndex(client_id) == client_id % MAX_CLIENTS

(***************************************************************************)
(* The record of the handler call that completed last: its arguments, the  *)
(* status it returned, whether it called notify_device_property_changed,   *)
(* whether a write found its client in the slot (matched) and stored its    *)
(* samples (stored), and the buffer a read handed back (out).  A write     *)
(* also notes whether the call before it was an accepted pid-targeted      *)
(* routing request for its client's pid (after_route), and a read notes    *)
(* the matched write of the same window that it directly follows           *)
(* (after_write).                                                          *)
(***************************************************************************)
\* What the host side handed to a call, kept for the claims: the selector, the
\* payload size and the CFData of a property write, the (pid, offset) that
\* send_rout_update was given, and the argument of a `prism set` with whether the
\* command accepted it.
NoRequest ==
    [selector |-> 0, size |-> 0, null |-> FALSE, bytes |-> <<>>, sent |-> <<>>,
     arg |-> <<>>, accepted |-> FALSE]

NoCall ==
    [op |-> "none", status |-> 0, notified |-> FALSE, client |-> 0, pid |-> 0,
     offset |-> 0, time |-> 0, frames |-> 0, matched |-> FALSE, stored |-> FALSE,
     after_route |-> FALSE, out |-> <<>>, after_write |-> <<>>,
     request |-> NoRequest]

\* Two clients whose ids map to the same slot, and the record kept of what the
\* first of them has written: empty, or the window [start, end) of its most recent
\* stored ClientWrite and whether that is the only one it has stored (single).
Tenant == MAX_CLIENTS - 1

HistClients == {Tenant, MAX_CLIENTS + Tenant}

NoWrites == <<>>

\* The handler calls in flight, one per host thread, for the interleaved runs: the
\* handler (op), the step it is at (pc), its arguments, the values it has loaded
\* (id, offset), its position in a copy (i) and the capture buffer it is filling
\* (out).  The rest is history: the slot's last_write_time when a write was called
\* (before), the last_write_time values a read's timing check loaded (seen),
\* whether a leave returned after a join into its slot had begun to store (raced),
\* and whether a join had another join into its slot in flight when it was
\* called, or called since (contended).  found is the flag of the pid-targeted
\* routing loop.
Threads == {"a", "b", "c", "d"}

Idle ==
    [op |-> "idle", pc |-> "idle", client |-> 0, pid |-> 0, id |-> 0, time |-> 0,
     frames |-> 0, offset |-> 0, i |-> 0, out |-> <<>>, before |-> 0, seen |-> <<>>,
     raced |-> FALSE, contended |-> FALSE, found |-> FALSE]

\* The device's I/O state: client_count and anchor_host_time as create_driver
\* leaves them, with the count of StartIO and of StopIO calls made so far.
Stopped == [client_count |-> 0, anchor_host_time |-> 0, starts |-> 0, stops |-> 0]

Init ==
    /\ client_slots = [s \in SlotIds |-> ClientSlot]
    /\ loopback_buffer = [k \in 0 .. (buffer_len - 1) |-> 0]
    /\ last = NoCall
    /\ calls = [th \in Threads |-> Idle]
    /\ hist = NoWrites
    /\ device = Stopped

(***************************************************************************)
(* Client registry                                                         *)
(***************************************************************************)
\* Faulty variant: the join keeps the channel offset it finds in the slot.
AddedSlot_KeepsOffset(slot, client_id, pid) ==
    [slot EXCEPT !.pid = pid, !.client_id = client_id]

AddedSlot(slot, client_id, pid) ==
    [slot EXCEPT !.channel_offset = 0, !.pid = pid, !.client_id = client_id]

add_device_client(client_id, pid) ==
    LET idx == SlotIndex(client_id)
        slots == [client_slots EXCEPT ![idx] = AddedSlot(client_slots[idx], client_id, pid)]
    IN  /\ client_slots' = slots
        /\ UNCHANGED loopback_buffer
        /\ last' = [NoCall EXCEPT !.op = "join", !.client = client_id, !.pid = pid,
                                  !.notified = TRUE]

\* Faulty variant: the leave clears the slot whoever occupies it.
RemoveMatches_Always(slot, client_id) == TRUE

\* if id == client_id { ... }
RemoveMatches(slot, client_id) == slot.client_id = client_id

RemovedSlot(slot) ==
    [slot EXCEPT !.client_id = 0, !.channel_offset = 0, !.pid = 0]

remove_device_client(client_id) ==
    LET idx == SlotIndex(client_id)
        hit == RemoveMatches(client_slots[idx], client_id)
        slots == IF hit
                 THEN [client_slots EXCEPT ![idx] = RemovedSlot(client_slots[idx])]
                 ELSE client_slots
    IN  /\ client_slots' = slots
        /\ UNCHANGED loopback_buffer
        /\ last' = [NoCall EXCEPT !.op = "leave", !.client = client_id,
                                  !.notified = hit]

(***************************************************************************)
(* Routing control: the 'rout' branch of set_property_data, after the      *)
(* payload has been decoded to (pid, offset).                              *)
(***************************************************************************)
\* Faulty variant: no offset is refused.
RoutingOffsetRejected_Never(offset) == FALSE

\* Faulty variant: the parity test is left out.
RoutingOffsetRejected_NoParity(offset) == offset + 1 >= num_channels

\* Faulty variant: the I/O engine's rule, which also refuses the reserved pair.
RoutingOffsetRejected_AsUnrouted(offset) ==
    \/ offset % 2 # 0
    \/ offset < 2
    \/ offset + 1 >= num_channels

\* if offset % 2 != 0 || offset + 1 >= max_channels { return IllegalOperation }
RoutingOffsetRejected(offset) ==
    \/ offset % 2 # 0
    \/ offset + 1 >= num_channels

\* pid == -1: for j in 0..MAX_CLIENTS { slots[j].channel_offset.store(offset) }
BroadcastTargets == SlotIds

\* Faulty variant: the loop stops at the first slot of the pid.
PidTargets_First(pid) ==
    {j \in SlotIds : /\ client_slots[j].pid = pid
                     /\ \A i \in SlotIds : client_slots[i].pid = pid => j <= i}

\* for j in 0..MAX_CLIENTS { if slots[j].pid.load() == pid { ... } }
PidTargets(pid) == {j \in SlotIds : client_slots[j].pid = pid}

RoutedSlots(targets, offset) ==
    [j \in SlotIds |->
        IF j \in targets
        THEN [client_slots[j] EXCEPT !.channel_offset = offset]
        ELSE client_slots[j]]

\* The status set_property_data returns once the offset has been accepted.
RoutingStatus(pid, found) == 0

\* Faulty variant: every routing request notifies.
RouteNotifies_Always(rejected, pid, found) == TRUE

\* notify_device_property_changed(driver, kAudioPrismPropertyClientList): after the
\* broadcast loop, and after the pid loop when found; not on the rejected path.
RouteNotifies(rejected, pid, found) == ~rejected /\ (pid = -1 \/ found)

RoutingWrite(pid, offset, request) ==
    LET rejected == RoutingOffsetRejected(offset)
        targets == IF rejected THEN {}
                   ELSE IF pid = -1 THEN BroadcastTargets
                   ELSE IF pid # 0 THEN PidTargets(pid)
                   ELSE {}
        found == targets # {}
        slots == RoutedSlots(targets, offset)
    IN  /\ client_slots' = slots
        /\ UNCHANGED loopback_buffer
        /\ last' = [NoCall EXCEPT
                      !.op = "route", !.pid = pid, !.offset = offset,
                      !.status = IF rejected THEN kAudioHardwareIllegalOperationError
                                 ELSE RoutingStatus(pid, found),
                      !.notified = RouteNotifies(rejected, pid, found),
                      !.request = request]

\* The routing write once the payload is decoded to (pid, offset).
set_property_data(pid, offset) == RoutingWrite(pid, offset, NoRequest)

(***************************************************************************)
(* I/O engine: do_io_operation                                             *)
(***************************************************************************)
\* The sample a playback buffer carries for absolute frame `at`, channel ch (0 = left,
\* 1 = right): nonzero, and different for every frame and channel.
Sample(at, ch) == 2 * at + ch + 1

\* A client's interleaved stereo buffer (_io_main_buffer) of a cycle that starts at
\* sample_time.
HostBuffer(sample_time, frames) ==
    [k \in 0 .. (2 * frames - 1) |-> Sample(sample_time + (k \div 2), k % 2)]

\* The system mix's buffer of the same cycle: other samples than any client's.
MixBuffer(sample_time, frames) ==
    [k \in 0 .. (2 * frames - 1) |-> 0 - Sample(sample_time + (k \div 2), k % 2)]

\* Faulty variant: only the upper bound is tested, so the mix channels are writable.
Unrouted_AllowsMix(channel_offset) == channel_offset + 1 >= num_channels

\* if channel_offset < 2 || channel_offset + 1 >= channels { return / continue }
Unrouted(channel_offset) ==
    \/ channel_offset < 2
    \/ channel_offset + 1 >= num_channels

\* Faulty variant: the right sample is stored once more in the channel after the pair.
StoreFrame_Wide(buf, dst_idx, in_l, in_r) ==
    IF dst_idx + 2 < buffer_len
    THEN (dst_idx :> in_l) @@ ((dst_idx + 1) :> in_r) @@ ((dst_idx + 2) :> in_r) @@ buf
    ELSE buf

\* Faulty variant: the two stores are made without the bounds check.
StoreFrame_Unchecked(buf, dst_idx, in_l, in_r) ==
    (dst_idx :> in_l) @@ ((dst_idx + 1) :> in_r) @@ buf

\* One frame of a copy loop: dst_idx is bounds-checked before the two stores.  A
\* store is to whatever index it names, so one past the end of the ring would show
\* as an index the ring did not have.
StoreFrame(buf, dst_idx, in_l, in_r) ==
    IF dst_idx + 1 < buffer_len
    THEN (dst_idx :> in_l) @@ ((dst_idx + 1) :> in_r) @@ buf
    ELSE buf

\* for i in from..n { dst_idx = (dst_frame + i) * channels + channel_offset; ... }
RECURSIVE CopyLoop(_, _, _, _, _, _, _)
CopyLoop(buf, i, n, dst_frame, src_frame, channel_offset, input) ==
    IF i >= n THEN buf
    ELSE CopyLoop(StoreFrame(buf, (dst_frame + i) * num_channels + channel_offset,
                             input[(src_frame + i) * 2], input[(src_frame + i) * 2 + 1]),
                  i + 1, n, dst_frame, src_frame, channel_offset, input)

\* The position in the ring of a cycle's first frame.
RingPos(sample_time) == sample_time % BufferFrames

\* Faulty variant: the copy runs on past the end of the ring instead of wrapping.
WrapCopy_NoWrap(buf, w_pos, frames, channel_offset, input) ==
    CopyLoop(buf, 0, frames, w_pos, 0, channel_offset, input)

\* The copy of `frames` stereo frames into the pair at channel_offset, split at the
\* end of the ring.
WrapCopy(buf, w_pos, frames, channel_offset, input) ==
    LET frames_until_wrap == BufferFrames - w_pos
    IN  IF frames <= frames_until_wrap
        THEN CopyLoop(buf, 0, frames, w_pos, 0, channel_offset, input)
        ELSE CopyLoop(CopyLoop(buf, 0, frames_until_wrap, w_pos, 0, channel_offset, input),
                      0, frames - frames_until_wrap, 0, frames_until_wrap,
                      channel_offset, input)

\* Faulty variant: the write goes ahead whoever holds the slot.
WriteDropped_Never(slot, client_id) == FALSE

\* if slot.client_id.load() != _client_id { return 0 }
WriteDropped(slot, client_id) == slot.client_id # client_id

\* Faulty variant: the stamp never moves back.
StampedSlot_Latest(slot, sample_time, frames) ==
    [slot EXCEPT !.last_write_time = IF sample_time + frames > slot.last_write_time
                                     THEN sample_time + frames
                                     ELSE slot.last_write_time]

\* slot.last_write_time.store(sample_time + frames)
StampedSlot(slot, sample_time, frames) ==
    [slot EXCEPT !.last_write_time = sample_time + frames]

\* ProcessOutput on the output stream: a client's playback write.
ClientWrite(client_id, sample_time, frames) ==
    LET idx == SlotIndex(client_id)
        slot == client_slots[idx]
        channel_offset == slot.channel_offset
        stored == ~WriteDropped(slot, client_id) /\ ~Unrouted(channel_offset)
        buf == IF stored
               THEN WrapCopy(loopback_buffer, RingPos(sample_time), frames, channel_offset,
                             HostBuffer(sample_time, frames))
               ELSE loopback_buffer
        slots == IF stored
                 THEN [client_slots EXCEPT ![idx] = StampedSlot(slot, sample_time, frames)]
                 ELSE client_slots
    IN  /\ loopback_buffer' = buf
        /\ client_slots' = slots
        /\ last' = [NoCall EXCEPT
                      !.op = "write", !.client = client_id, !.time = sample_time,
                      !.frames = frames, !.offset = channel_offset,
                      !.matched = ~WriteDropped(slot, client_id), !.stored = stored,
                      !.after_route = /\ last.op = "route" /\ last.status = 0
                                      /\ last.pid = slot.pid /\ last.pid # 0
                                      /\ ~WriteDropped(slot, client_id)]

\* Faulty variant: the mix is stored in the last pair of the bus.
MixOffset_LastPair == num_channels - 2

\* let dst_idx = (w_pos + i) * channels: the mix has no channel offset.
MixOffset == 0

\* WriteMix on the output stream: the system mix goes to channels 0 and 1.
SystemMixWrite(sample_time, frames) ==
    LET buf == WrapCopy(loopback_buffer, RingPos(sample_time), frames, MixOffset,
                        MixBuffer(sample_time, frames))
    IN  /\ loopback_buffer' = buf
        /\ UNCHANGED client_slots
        /\ last' = [NoCall EXCEPT
                      !.op = "mix", !.time = sample_time, !.frames = frames,
                      !.stored = TRUE]

\* The ring index the k-th sample of a capture buffer is copied from (the two
\* copy_nonoverlapping calls).
ReadSource(r_pos, frames, k) ==
    LET frames_until_wrap == BufferFrames - r_pos
    IN  IF frames <= frames_until_wrap \/ k < frames_until_wrap * num_channels
        THEN r_pos * num_channels + k
        ELSE k - frames_until_wrap * num_channels

\* The ring indices a capture of `frames` frames at sample_time copies from.
ReadIndices(sample_time, frames) ==
    {ReadSource(RingPos(sample_time), frames, k) : k \in 0 .. (frames * num_channels - 1)}

\* What a copy finds at a ring index: the sample, or, past the end of the ring,
\* whatever the memory there holds.
Unmapped == {0, 1}

RingSample(idx, beyond) ==
    IF idx \in DOMAIN loopback_buffer THEN loopback_buffer[idx] ELSE beyond

\* Faulty variant: the timing check compares the start of the window, not its end.
Stale_IgnoresFrames(slot, sample_time, frames) == sample_time > slot.last_write_time

\* Faulty variant: a window that ends exactly at the last write counts as not yet written.
Stale_Inclusive(slot, sample_time, frames) == sample_time + frames >= slot.last_write_time

\* if input_sample_time + frames > last_write_time { zero the pair }
Stale(slot, sample_time, frames) == sample_time + frames > slot.last_write_time

\* The channel offsets whose pair the timing check zeroes.
ZeroedOffsets(sample_time, frames) ==
    {client_slots[j].channel_offset : j \in
        {j \in SlotIds : /\ client_slots[j].client_id # 0
                         /\ ~Unrouted(client_slots[j].channel_offset)
                         /\ Stale(client_slots[j], sample_time, frames)}}

\* The capture buffer ReadInput hands back: the copy, then the timing check.
CaptureOutput(sample_time, frames, beyond) ==
    LET r_pos == RingPos(sample_time)
        zeroed == ZeroedOffsets(sample_time, frames)
    IN  [k \in 1 .. (frames * num_channels) |->
            IF \E o \in zeroed : (k - 1) % num_channels \in {o, o + 1}
            THEN 0
            ELSE RingSample(ReadSource(r_pos, frames, k - 1), beyond)]

\* ReadInput on the input stream: a capture client reads the whole bus.
CaptureRead(sample_time, frames) ==
    /\ UNCHANGED <<client_slots, loopback_buffer>>
    /\ \E beyond \in Unmapped :
       last' = [NoCall EXCEPT
                  !.op = "read", !.time = sample_time, !.frames = frames,
                  !.out = CaptureOutput(sample_time, frames, beyond),
                  !.after_write =
                      IF /\ last.op = "write" /\ last.matched
                         /\ last.time = sample_time /\ last.frames = frames
                      THEN <<[client |-> last.client, offset |-> last.offset,
                              stored |-> last.stored, after_route |-> last.after_route]>>
                      ELSE <<>>]

(***************************************************************************)
(* Specifications.  Spec is the control plane: joins, leaves and routing   *)
(* requests over every client id and pid of the model.  SpecIO adds the    *)
(* I/O engine for three clients, two of which share a slot, each client    *)
(* its own process, with pid-targeted routing.                             *)
(***************************************************************************)
Next ==
    \/ \E c \in ClientIds, p \in Pids : add_device_client(c, p) /\ UNCHANGED <<calls, hist, device>>
    \/ \E c \in ClientIds : remove_device_client(c) /\ UNCHANGED <<calls, hist, device>>
    \/ \E p \in RoutePids, o \in Offsets : set_property_data(p, o) /\ UNCHANGED <<calls, hist, device>>

Spec == Init /\ [][Next]_vars

IOClients == {1, 2, MAX_CLIENTS + 1}

IOOffsets == {0, 2}

NextIO ==
    \/ \E c \in IOClients : add_device_client(c, c) /\ UNCHANGED <<calls, hist, device>>
    \/ \E c \in IOClients : remove_device_client(c) /\ UNCHANGED <<calls, hist, device>>
    \/ \E p \in IOClients, o \in IOOffsets : set_property_data(p, o) /\ UNCHANGED <<calls, hist, device>>
    \/ \E c \in IOClients, t \in Times, f \in FrameCounts :
          ClientWrite(c, t, f) /\ UNCHANGED <<calls, hist, device>>
    \/ \E t \in Times, f \in FrameCounts : CaptureRead(t, f) /\ UNCHANGED <<calls, hist, device>>

SpecIO == Init /\ [][NextIO]_vars

\* SpecHist is the I/O engine for the two clients of one slot, with the record of
\* what the first has written.
Recorded ==
    hist' = IF last'.op = "write" /\ last'.stored /\ last'.client = Tenant
            THEN <<[start |-> last'.time, end |-> last'.time + last'.frames,
                    single |-> (hist = <<>>)]>>
            ELSE hist

NextHist ==
    \/ \E c \in HistClients : add_device_client(c, c) /\ Recorded /\ UNCHANGED <<calls, device>>
    \/ \E c \in HistClients : remove_device_client(c) /\ Recorded /\ UNCHANGED <<calls, device>>
    \/ \E p \in HistClients, o \in IOOffsets :
          set_property_data(p, o) /\ Recorded /\ UNCHANGED <<calls, device>>
    \/ \E c \in HistClients, t \in Times, f \in FrameCounts :
          ClientWrite(c, t, f) /\ Recorded /\ UNCHANGED <<calls, device>>
    \/ \E t \in Times, f \in FrameCounts : CaptureRead(t, f) /\ Recorded /\ UNCHANGED <<calls, device>>

SpecHist == Init /\ [][NextHist]_vars

\* SpecBurst is the I/O engine for one client with cycles of up to MaxBurst
\* frames, longer than the ring, and with the system mix.
Bursts == 0 .. MaxBurst

NextBurst ==
    \/ add_device_client(Tenant, Tenant) /\ UNCHANGED <<calls, hist, device>>
    \/ \E o \in IOOffsets : set_property_data(Tenant, o) /\ UNCHANGED <<calls, hist, device>>
    \/ \E t \in Times, f \in Bursts : ClientWrite(Tenant, t, f) /\ UNCHANGED <<calls, hist, device>>
    \/ \E t \in Times, f \in Bursts : SystemMixWrite(t, f) /\ UNCHANGED <<calls, hist, device>>
    \/ \E t \in Times, f \in Bursts : CaptureRead(t, f) /\ UNCHANGED <<calls, hist, device>>

SpecBurst == Init /\ [][NextBurst]_vars

(***************************************************************************)
(* The registry handlers step by step: each atomic load and store of       *)
(* add_device_client and remove_device_client is one step of the thread    *)
(* that runs the call, so that two calls interleave.  The host adds a      *)
(* client before it removes it, and each of the two clients, which share a *)
(* slot, has its calls made in that order on a thread of its own.          *)
(***************************************************************************)
Returned(th) == calls[th].pc \in {"idle", "done"}

\* The threads that carry the two clients' joins and leaves.
Callers == {"a", "b"}

RaceClient(th) == IF th = "a" THEN Tenant ELSE MAX_CLIENTS + Tenant

\* The call of thread o is a join into the slot of client_id.
JoinsSlot(o, client_id) ==
    /\ calls[o].op = "join"
    /\ SlotIndex(calls[o].client) = SlotIndex(client_id)

Step(th, call) ==
    /\ calls' = [calls EXCEPT ![th] = call]
    /\ UNCHANGED device

BeginJoin(th, client_id, pid) ==
    /\ Returned(th)
    /\ calls[th].op # "join"
    /\ calls' = [o \in Threads |->
                    IF o = th
                    THEN [Idle EXCEPT
                             !.op = "join", !.pc = "store_offset",
                             !.client = client_id, !.pid = pid,
                             !.contended = \E other \in Threads \ {th} :
                                              /\ JoinsSlot(other, client_id)
                                              /\ ~Returned(other)]
                    ELSE IF JoinsSlot(o, client_id)
                         THEN [calls[o] EXCEPT !.contended = TRUE]
                         ELSE calls[o]]
    /\ UNCHANGED <<client_slots, loopback_buffer, last, hist, device>>

\* slot.channel_offset.store(channel_offset, SeqCst)
JoinStoreOffset(th) ==
    LET call == calls[th]
        idx == SlotIndex(call.client)
    IN  /\ call.pc = "store_offset"
        /\ client_slots' = [client_slots EXCEPT ![idx].channel_offset = 0]
        /\ Step(th, [call EXCEPT !.pc = "store_pid"])
        /\ UNCHANGED <<loopback_buffer, last, hist>>

\* slot.pid.store(pid, SeqCst)
JoinStorePid(th) ==
    LET call == calls[th]
        idx == SlotIndex(call.client)
    IN  /\ call.pc = "store_pid"
        /\ client_slots' = [client_slots EXCEPT ![idx].pid = call.pid]
        /\ Step(th, [call EXCEPT !.pc = "store_client_id"])
        /\ UNCHANGED <<loopback_buffer, last, hist>>

\* slot.client_id.store(client_id, Release), then the notification
JoinStoreClientId(th) ==
    LET call == calls[th]
        idx == SlotIndex(call.client)
    IN  /\ call.pc = "store_client_id"
        /\ client_slots' = [client_slots EXCEPT ![idx].client_id = call.client]
        /\ Step(th, [call EXCEPT !.pc = "done"])
        /\ last' = [NoCall EXCEPT !.op = "join", !.client = call.client,
                                  !.pid = call.pid, !.notified = TRUE]
        /\ UNCHANGED <<loopback_buffer, hist>>

BeginLeave(th, client_id) ==
    /\ Returned(th)
    /\ calls[th].op = "join"
    /\ calls[th].client = client_id
    /\ Step(th, [Idle EXCEPT !.op = "leave", !.pc = "load_id", !.client = client_id])
    /\ UNCHANGED <<client_slots, loopback_buffer, last, hist>>

\* Another thread runs a join into the slot of client_id and has stored at least
\* the channel offset.
JoinStoresBegun(th, client_id) ==
    \E other \in Threads \ {th} :
        /\ JoinsSlot(other, client_id)
        /\ calls[other].pc \in {"store_pid", "store_client_id", "done"}

\* let id = slot.client_id.load(SeqCst); if id == client_id { ... }
LeaveLoadId(th) ==
    LET call == calls[th]
        slot == client_slots[SlotIndex(call.client)]
        hit == RemoveMatches(slot, call.client)
    IN  /\ call.pc = "load_id"
        /\ Step(th, [call EXCEPT !.id = slot.client_id,
                                 !.pc = IF hit THEN "clear_client_id" ELSE "done",
                                 !.raced = ~hit /\ JoinStoresBegun(th, call.client)])
        /\ last' = IF hit THEN last
                   ELSE [NoCall EXCEPT !.op = "leave", !.client = call.client]
        /\ UNCHANGED <<client_slots, loopback_buffer, hist>>

\* slot.client_id.store(0, Release)
LeaveClearClientId(th) ==
    LET call == calls[th]
        idx == SlotIndex(call.client)
    IN  /\ call.pc = "clear_client_id"
        /\ client_slots' = [client_slots EXCEPT ![idx].client_id = 0]
        /\ Step(th, [call EXCEPT !.pc = "clear_offset"])
        /\ UNCHANGED <<loopback_buffer, last, hist>>

\* slot.channel_offset.store(0, Relaxed)
LeaveClearOffset(th) ==
    LET call == calls[th]
        idx == SlotIndex(call.client)
    IN  /\ call.pc = "clear_offset"
        /\ client_slots' = [client_slots EXCEPT ![idx].channel_offset = 0]
        /\ Step(th, [call EXCEPT !.pc = "clear_pid"])
        /\ UNCHANGED <<loopback_buffer, last, hist>>

\* slot.pid.store(0, Relaxed), then the notification
LeaveClearPid(th) ==
    LET call == calls[th]
        idx == SlotIndex(call.client)
    IN  /\ call.pc = "clear_pid"
        /\ client_slots' = [client_slots EXCEPT ![idx].pid = 0]
        /\ Step(th, [call EXCEPT !.pc = "done",
                                 !.raced = JoinStoresBegun(th, call.client)])
        /\ last' = [NoCall EXCEPT !.op = "leave", !.client = call.client,
                                  !.notified = TRUE]
        /\ UNCHANGED <<loopback_buffer, hist>>

NextRace ==
    \/ \E th \in Callers, p \in Pids : BeginJoin(th, RaceClient(th), p)
    \/ \E th \in Callers : JoinStoreOffset(th)
    \/ \E th \in Callers : JoinStorePid(th)
    \/ \E th \in Callers : JoinStoreClientId(th)
    \/ \E th \in Callers : BeginLeave(th, RaceClient(th))
    \/ \E th \in Callers : LeaveLoadId(th)
    \/ \E th \in Callers : LeaveClearClientId(th)
    \/ \E th \in Callers : LeaveClearOffset(th)
    \/ \E th \in Callers : LeaveClearPid(th)

SpecRace == Init /\ [][NextRace]_vars

(***************************************************************************)
(* The routing request and the client-list snapshot step by step, each on  *)
(* a thread of its own, interleaved with the joins and leaves above.       *)
(***************************************************************************)
RouterThread == "c"

SnapshotThread == "d"

BeginRoute(th, pid, offset) ==
    /\ Returned(th)
    /\ Step(th, [Idle EXCEPT !.op = "route", !.pc = "route_validate",
                             !.pid = pid, !.offset = offset])
    /\ UNCHANGED <<client_slots, loopback_buffer, last, hist>>

\* The record of a routing request that has returned.
RouteReturned(call, status, notified) ==
    [NoCall EXCEPT !.op = "route", !.pid = call.pid, !.offset = call.offset,
                   !.status = status, !.notified = notified]

\* The offset check, then the choice of the loop: broadcast, pid-targeted, or
\* neither for pid 0.
RouteValidate(th) ==
    LET call == calls[th]
        rejected == RoutingOffsetRejected(call.offset)
        looping == ~rejected /\ call.pid # 0
    IN  /\ call.pc = "route_validate"
        /\ Step(th, [call EXCEPT !.pc = IF ~looping THEN "done"
                                        ELSE IF call.pid = -1 THEN "route_broadcast"
                                        ELSE "route_load_pid"])
        /\ last' = IF looping THEN last
                   ELSE RouteReturned(call,
                                      IF rejected THEN kAudioHardwareIllegalOperationError
                                      ELSE RoutingStatus(call.pid, FALSE),
                                      FALSE)
        /\ UNCHANGED <<client_slots, loopback_buffer, hist>>

\* for j in 0..MAX_CLIENTS { slot.channel_offset.store(offset, Release) }, one
\* slot a step; the notification follows the last store.
RouteBroadcastStore(th) ==
    LET call == calls[th]
        n == call.i + 1
        over == n = MAX_CLIENTS
    IN  /\ call.pc = "route_broadcast"
        /\ client_slots' = [client_slots EXCEPT ![call.i].channel_offset = call.offset]
        /\ Step(th, [call EXCEPT !.i = n, !.found = TRUE,
                                 !.pc = IF over THEN "done" ELSE "route_broadcast"])
        /\ last' = IF over THEN RouteReturned(call, 0, TRUE) ELSE last
        /\ UNCHANGED <<loopback_buffer, hist>>

\* if slot.pid.load(Acquire) == pid { ... }; a slot of another pid is passed over.
RouteLoadPid(th) ==
    LET call == calls[th]
        hit == client_slots[call.i].pid = call.pid
        n == call.i + 1
        over == ~hit /\ n = MAX_CLIENTS
    IN  /\ call.pc = "route_load_pid"
        /\ Step(th, [call EXCEPT !.i = IF hit THEN call.i ELSE n,
                                 !.pc = IF hit THEN "route_store"
                                        ELSE IF over THEN "done" ELSE "route_load_pid"])
        /\ last' = IF over
                   THEN RouteReturned(call, RoutingStatus(call.pid, call.found), call.found)
                   ELSE last
        /\ UNCHANGED <<client_slots, loopback_buffer, hist>>

\* slot.channel_offset.store(offset, Release); found = true
RouteStoreOffset(th) ==
    LET call == calls[th]
        n == call.i + 1
        over == n = MAX_CLIENTS
    IN  /\ call.pc = "route_store"
        /\ client_slots' = [client_slots EXCEPT ![call.i].channel_offset = call.offset]
        /\ Step(th, [call EXCEPT !.i = n, !.found = TRUE,
                                 !.pc = IF over THEN "done" ELSE "route_load_pid"])
        /\ last' = IF over THEN RouteReturned(call, RoutingStatus(call.pid, TRUE), TRUE)
                   ELSE last
        /\ UNCHANGED <<loopback_buffer, hist>>

BeginSnapshot(th) ==
    /\ Returned(th)
    /\ Step(th, [Idle EXCEPT !.op = "snapshot", !.pc = "snapshot_client_id"])
    /\ UNCHANGED <<client_slots, loopback_buffer, last, hist>>

\* Faulty variant: the snapshot lists empty slots too.
SnapshotSkips_Never(client_id) == FALSE

\* if client_id == 0 { continue }
SnapshotSkips(client_id) == client_id = 0

\* let client_id = slot.client_id.load(Acquire); an empty slot is passed over.
SnapshotLoadClientId(th) ==
    LET call == calls[th]
        client_id == client_slots[call.i].client_id
        skip == SnapshotSkips(client_id)
        n == call.i + 1
        over == skip /\ n = MAX_CLIENTS
    IN  /\ call.pc = "snapshot_client_id"
        /\ Step(th, [call EXCEPT !.id = client_id,
                                 !.i = IF skip THEN n ELSE call.i,
                                 !.pc = IF ~skip THEN "snapshot_pid"
                                        ELSE IF over THEN "done" ELSE "snapshot_client_id"])
        /\ last' = IF over THEN [NoCall EXCEPT !.op = "snapshot", !.out = call.out]
                   ELSE last
        /\ UNCHANGED <<client_slots, loopback_buffer, hist>>

\* let pid = slot.pid.load(Acquire)
SnapshotLoadPid(th) ==
    LET call == calls[th]
    IN  /\ call.pc = "snapshot_pid"
        /\ Step(th, [call EXCEPT !.pid = client_slots[call.i].pid,
                                 !.pc = "snapshot_offset"])
        /\ UNCHANGED <<client_slots, loopback_buffer, last, hist>>

\* let offset = slot.channel_offset.load(Acquire); the entry is pushed.
SnapshotLoadOffset(th) ==
    LET call == calls[th]
        entry == [client_id |-> call.id, pid |-> call.pid,
                  channel_offset |-> client_slots[call.i].channel_offset]
        out == Append(call.out, entry)
        n == call.i + 1
        over == n = MAX_CLIENTS
    IN  /\ call.pc = "snapshot_offset"
        /\ Step(th, [call EXCEPT !.out = out, !.i = n,
                                 !.pc = IF over THEN "done" ELSE "snapshot_client_id"])
        /\ last' = IF over THEN [NoCall EXCEPT !.op = "snapshot", !.out = out] ELSE last
        /\ UNCHANGED <<client_slots, loopback_buffer, hist>>

SnapPids == {-1, Tenant}

NextSnap ==
    \/ \E th \in Callers : BeginJoin(th, RaceClient(th), Tenant)
    \/ \E th \in Callers : JoinStoreOffset(th)
    \/ \E th \in Callers : JoinStorePid(th)
    \/ \E th \in Callers : JoinStoreClientId(th)
    \/ \E th \in Callers : BeginLeave(th, RaceClient(th))
    \/ \E th \in Callers : LeaveLoadId(th)
    \/ \E th \in Callers : LeaveClearClientId(th)
    \/ \E th \in Callers : LeaveClearOffset(th)
    \/ \E th \in Callers : LeaveClearPid(th)
    \/ \E p \in SnapPids, o \in {2, 3} : BeginRoute(RouterThread, p, o)
    \/ RouteValidate(RouterThread)
    \/ RouteBroadcastStore(RouterThread)
    \/ RouteLoadPid(RouterThread)
    \/ RouteStoreOffset(RouterThread)
    \/ BeginSnapshot(SnapshotThread)
    \/ SnapshotLoadClientId(SnapshotThread)
    \/ SnapshotLoadPid(SnapshotThread)
    \/ SnapshotLoadOffset(SnapshotThread)

SpecSnap == Init /\ [][NextSnap]_vars

\* Faulty variant: the entry carries the unrouted default instead of the slot's offset.
ClientListEntry_Unrouted(slot) ==
    [client_id |-> slot.client_id, pid |-> slot.pid, channel_offset |-> 0]

\* The dictionary pushed for a slot: its client_id, pid and channel_offset.  The
\* offset is narrowed to u32, which keeps every offset a slot can hold.
ClientListEntry(slot) ==
    [client_id |-> slot.client_id, pid |-> slot.pid,
     channel_offset |-> slot.channel_offset]

\* for slot in driver.client_slots.iter() { ... array.push(entry) }, from slot j on.
RECURSIVE ClientListFrom(_, _)
ClientListFrom(j, array) ==
    IF j = MAX_CLIENTS THEN array
    ELSE IF SnapshotSkips(client_slots[j].client_id) THEN ClientListFrom(j + 1, array)
    ELSE ClientListFrom(j + 1, Append(array, ClientListEntry(client_slots[j])))

\* The client-list property read with nothing else running.
encode_client_list ==
    /\ last' = [NoCall EXCEPT !.op = "snapshot", !.out = ClientListFrom(0, <<>>)]
    /\ UNCHANGED <<client_slots, loopback_buffer>>

\* SpecList is the control plane with the client list read between its calls.
NextList ==
    \/ \E c \in ClientIds, p \in Pids : add_device_client(c, p) /\ UNCHANGED <<calls, hist, device>>
    \/ \E c \in ClientIds : remove_device_client(c) /\ UNCHANGED <<calls, hist, device>>
    \/ \E p \in RoutePids, o \in Offsets : set_property_data(p, o) /\ UNCHANGED <<calls, hist, device>>
    \/ encode_client_list /\ UNCHANGED <<calls, hist, device>>

SpecList == Init /\ [][NextList]_vars

\* SpecRouteJoin is the joins of two clients of one slot, each of its own process,
\* beside routing requests for the first client's pid, a load or a store at a time.
NextRouteJoin ==
    \/ \E th \in Callers : BeginJoin(th, RaceClient(th), RaceClient(th))
    \/ \E th \in Callers : JoinStoreOffset(th)
    \/ \E th \in Callers : JoinStorePid(th)
    \/ \E th \in Callers : JoinStoreClientId(th)
    \/ \E o \in IOOffsets : BeginRoute(RouterThread, RaceClient("a"), o)
    \/ RouteValidate(RouterThread)
    \/ RouteLoadPid(RouterThread)
    \/ RouteStoreOffset(RouterThread)

SpecRouteJoin == Init /\ [][NextRouteJoin]_vars

(***************************************************************************)
(* The I/O engine step by step: a ClientWrite on one thread and a          *)
(* CaptureRead on the other, every sample copy and every atomic access a   *)
(* step.  The ring is plain memory that both copy loops touch without      *)
(* synchronisation, so a copied sample is the old or the new value,        *)
(* whichever the interleaving gives.  Joins and routing requests run        *)
(* between I/O cycles; hist lists the clients of the writes called so far. *)
(***************************************************************************)
Quiescent == \A th \in Threads : Returned(th)

BeginWrite(th, client_id, sample_time, frames) ==
    /\ Returned(th)
    /\ Len(hist) < MaxWrites
    /\ hist' = Append(hist, client_id)
    /\ Step(th, [Idle EXCEPT !.op = "write", !.pc = "check_client_id",
                             !.client = client_id, !.time = sample_time,
                             !.frames = frames,
                             !.before = client_slots[SlotIndex(client_id)].last_write_time])
    /\ UNCHANGED <<client_slots, loopback_buffer, last>>

\* if slot.client_id.load(Acquire) != _client_id { return 0 }
WriteCheckClientId(th) ==
    LET call == calls[th]
        slot == client_slots[SlotIndex(call.client)]
        dropped == WriteDropped(slot, call.client)
    IN  /\ call.pc = "check_client_id"
        /\ Step(th, [call EXCEPT !.id = slot.client_id,
                                 !.pc = IF dropped THEN "done" ELSE "load_offset"])
        /\ last' = IF dropped
                   THEN [NoCall EXCEPT !.op = "write", !.client = call.client,
                                       !.time = call.time, !.frames = call.frames]
                   ELSE last
        /\ UNCHANGED <<client_slots, loopback_buffer, hist>>

\* let channel_offset = slot.channel_offset.load(Acquire); the range check
WriteLoadOffset(th) ==
    LET call == calls[th]
        slot == client_slots[SlotIndex(call.client)]
        dropped == Unrouted(slot.channel_offset)
    IN  /\ call.pc = "load_offset"
        /\ Step(th, [call EXCEPT !.offset = slot.channel_offset,
                                 !.pc = IF dropped THEN "done"
                                        ELSE IF call.frames = 0 THEN "stamp" ELSE "copy"])
        /\ last' = IF dropped
                   THEN [NoCall EXCEPT !.op = "write", !.client = call.client,
                                       !.time = call.time, !.frames = call.frames,
                                       !.offset = slot.channel_offset, !.matched = TRUE]
                   ELSE last
        /\ UNCHANGED <<client_slots, loopback_buffer, hist>>

\* The ring frame that frame fr of a cycle is stored to by the two copy loops.
WriteFrame(w_pos, frames, fr) ==
    LET frames_until_wrap == BufferFrames - w_pos
    IN  IF frames <= frames_until_wrap \/ fr < frames_until_wrap
        THEN w_pos + fr
        ELSE fr - frames_until_wrap

\* Faulty variant: the slot's channel_offset is loaded again for every store.
WriteOffset_Reloaded(call, slot) == slot.channel_offset

\* The local channel_offset, loaded once before the loops.
WriteOffset(call, slot) == call.offset

\* One sample store of a copy loop: *buffer_ptr.add(dst_idx) = in_l, or
\* *buffer_ptr.add(dst_idx + 1) = in_r.  seen lists the offset of every store of
\* the call, and raced tells that the slot's channel_offset was found changed.
WriteSample(th) ==
    LET call == calls[th]
        slot == client_slots[SlotIndex(call.client)]
        channel_offset == WriteOffset(call, slot)
        fr == call.i \div 2
        ch == call.i % 2
        dst_idx == WriteFrame(RingPos(call.time), call.frames, fr) * num_channels
                       + channel_offset
        n == call.i + 1
    IN  /\ call.pc = "copy"
        /\ loopback_buffer' =
              IF dst_idx + 1 < buffer_len
              THEN [loopback_buffer EXCEPT
                       ![dst_idx + ch] = HostBuffer(call.time, call.frames)[call.i]]
              ELSE loopback_buffer
        /\ Step(th, [call EXCEPT !.i = n,
                                 !.seen = Append(call.seen, channel_offset),
                                 !.raced = call.raced \/ slot.channel_offset # call.offset,
                                 !.pc = IF n = 2 * call.frames THEN "stamp" ELSE "copy"])
        /\ UNCHANGED <<client_slots, last, hist>>

\* slot.last_write_time.store(sample_time + frames, Release)
WriteStamp(th) ==
    LET call == calls[th]
        idx == SlotIndex(call.client)
    IN  /\ call.pc = "stamp"
        /\ client_slots' = [client_slots EXCEPT
                               ![idx] = StampedSlot(client_slots[idx], call.time,
                                                    call.frames)]
        /\ Step(th, [call EXCEPT !.pc = "done"])
        /\ last' = [NoCall EXCEPT !.op = "write", !.client = call.client,
                                  !.time = call.time, !.frames = call.frames,
                                  !.offset = call.offset, !.matched = TRUE,
                                  !.stored = TRUE]
        /\ UNCHANGED <<loopback_buffer, hist>>

BeginRead(th, sample_time, frames) ==
    /\ Returned(th)
    /\ Step(th, [Idle EXCEPT !.op = "read", !.time = sample_time, !.frames = frames,
                             !.pc = IF frames = 0 THEN "timing_check" ELSE "copy"])
    /\ UNCHANGED <<client_slots, loopback_buffer, last, hist>>

\* One sample of the copy_nonoverlapping calls from the ring to the capture buffer.
ReadSample(th) ==
    LET call == calls[th]
        n == call.i + 1
    IN  /\ call.pc = "copy"
        /\ Step(th, [call EXCEPT
                        !.out = Append(call.out,
                                       loopback_buffer[ReadSource(RingPos(call.time),
                                                                  call.frames, call.i)]),
                        !.i = n,
                        !.pc = IF n = call.frames * num_channels
                               THEN "timing_check" ELSE "copy"])
        /\ UNCHANGED <<client_slots, loopback_buffer, last, hist>>

\* The pass over the slots after the copy: the loads of client_id, channel_offset
\* and last_write_time, and the zeroing of the pairs found stale.
ReadTimingCheck(th) ==
    LET call == calls[th]
        zeroed == ZeroedOffsets(call.time, call.frames)
        out == [k \in 1 .. Len(call.out) |->
                   IF \E o \in zeroed : (k - 1) % num_channels \in {o, o + 1}
                   THEN 0
                   ELSE call.out[k]]
    IN  /\ call.pc = "timing_check"
        /\ Step(th, [call EXCEPT
                        !.out = out, !.pc = "done",
                        !.seen = [j \in SlotIds |-> client_slots[j].last_write_time]])
        /\ last' = [NoCall EXCEPT !.op = "read", !.time = call.time,
                                  !.frames = call.frames, !.out = out]
        /\ UNCHANGED <<client_slots, loopback_buffer, hist>>

WriterThread == "a"

ReaderThread == "b"

NextRaceIO ==
    \/ Quiescent /\ add_device_client(Tenant, Tenant) /\ UNCHANGED <<calls, hist, device>>
    \/ \E o \in IOOffsets :
          Quiescent /\ set_property_data(Tenant, o) /\ UNCHANGED <<calls, hist, device>>
    \/ \E t \in Times, f \in FrameCounts : BeginWrite(WriterThread, Tenant, t, f)
    \/ WriteCheckClientId(WriterThread)
    \/ WriteLoadOffset(WriterThread)
    \/ WriteSample(WriterThread)
    \/ WriteStamp(WriterThread)
    \/ \E t \in Times, f \in FrameCounts : BeginRead(ReaderThread, t, f)
    \/ ReadSample(ReaderThread)
    \/ ReadTimingCheck(ReaderThread)

SpecRaceIO == Init /\ [][NextRaceIO]_vars

\* SpecRouteIO is one client's playback write, a sample store at a time, beside
\* routing requests that run a load or a store at a time.
NextRouteIO ==
    \/ Quiescent /\ add_device_client(Tenant, Tenant) /\ UNCHANGED <<calls, hist, device>>
    \/ \E p \in SnapPids, o \in IOOffsets : BeginRoute(RouterThread, p, o)
    \/ RouteValidate(RouterThread)
    \/ RouteBroadcastStore(RouterThread)
    \/ RouteLoadPid(RouterThread)
    \/ RouteStoreOffset(RouterThread)
    \/ \E t \in Times, f \in FrameCounts : BeginWrite(WriterThread, Tenant, t, f)
    \/ WriteCheckClientId(WriterThread)
    \/ WriteLoadOffset(WriterThread)
    \/ WriteSample(WriterThread)
    \/ WriteStamp(WriterThread)

SpecRouteIO == Init /\ [][NextRouteIO]_vars

(***************************************************************************)
(* The routing property's wire format: send_rout_update on the host side,  *)
(* the payload checks and the decoding of set_property_data in the driver, *)
(* and the `prism set` command in front of them.                           *)
(***************************************************************************)
ByteValues == 2 ^ ByteBits

\* The bytes of an i32 and of a u32.
WordBytes == 4

WordValues == ByteValues ^ WordBytes

\* u32::to_le_bytes: least significant byte first.
u32_to_le_bytes(v) == [k \in 1 .. WordBytes |-> (v \div (ByteValues ^ (k - 1))) % ByteValues]

\* i32::to_le_bytes: the two's complement of v, least significant byte first.
i32_to_le_bytes(v) == u32_to_le_bytes(v % WordValues)

\* Faulty variant: the first byte is taken as the most significant.
u32_from_le_bytes_BigEndian(b) ==
    b[4] + ByteValues * (b[3] + ByteValues * (b[2] + ByteValues * b[1]))

\* u32::from_le_bytes([b0, b1, b2, b3])
u32_from_le_bytes(b) ==
    b[1] + ByteValues * (b[2] + ByteValues * (b[3] + ByteValues * b[4]))

\* i32::from_le_bytes: the same bytes read as a two's complement number.
i32_from_le_bytes(b) ==
    LET u == u32_from_le_bytes(b)
    IN  IF 2 * u >= WordValues THEN u - WordValues ELSE u

\* buf of send_rout_update: update.pid.to_le_bytes(), then
\* update.channel_offset.to_le_bytes().
RoutingUpdateBytes(pid, offset) == i32_to_le_bytes(pid) \o u32_to_le_bytes(offset)

\* size_of::<PrismRoutingUpdate>() and size_of::<CFDataRef>(), in bytes.
expected_struct_size == 2 * WordBytes

cfdata_ref_size == 8

\* A property write that stops before the routing code: the status, and nothing
\* else happens.
WriteRefused(status, request) ==
    /\ last' = [NoCall EXCEPT !.op = "set_property", !.status = status,
                              !.request = request]
    /\ UNCHANGED <<client_slots, loopback_buffer>>

\* Faulty variant: a short CFData is read anyway.
TooShort_Never(bytes) == FALSE

\* len < expected_struct_size
TooShort(bytes) == Len(bytes) < expected_struct_size

\* The bytes the driver copies into buf: the first 8 of the CFData.
CopiedBytes(bytes) ==
    [k \in 1 .. expected_struct_size |-> IF k <= Len(bytes) THEN bytes[k] ELSE 0]

\* set_property_data as the host calls it: a selector, the payload size and the
\* CFDataRef in the payload (null, or a CFData holding bytes).
SetPropertyData(selector, in_data_size, null, bytes, request) ==
    LET asked == [request EXCEPT !.selector = selector, !.size = in_data_size,
                                 !.null = null, !.bytes = bytes]
        buf == CopiedBytes(bytes)
        pid == i32_from_le_bytes(SubSeq(buf, 1, WordBytes))
        offset == u32_from_le_bytes(SubSeq(buf, WordBytes + 1, 2 * WordBytes))
    IN  IF selector # kAudioPrismPropertyRoutingTable
        THEN WriteRefused(kAudioHardwareUnknownPropertyError, asked)
        ELSE IF in_data_size # cfdata_ref_size
        THEN WriteRefused(kAudioHardwareBadPropertySizeError, asked)
        ELSE IF null
        THEN WriteRefused(kAudioHardwareIllegalOperationError, asked)
        ELSE IF TooShort(bytes)
        THEN WriteRefused(kAudioHardwareBadPropertySizeError, asked)
        ELSE RoutingWrite(pid, offset, asked)

\* send_rout_update(device_id, pid, offset): the 8 bytes in a CFData, written to
\* the routing property with the size of a CFDataRef.
send_rout_update(pid, offset, request) ==
    SetPropertyData(kAudioPrismPropertyRoutingTable, cfdata_ref_size, FALSE,
                    RoutingUpdateBytes(pid, offset),
                    [request EXCEPT !.sent = <<pid, offset>>])

\* ch1 + 1 on u32: the sum, or "overflow" in a build with overflow checks, where
\* the command panics; without them the sum wraps.
RangeEnd(ch1, checked) ==
    IF ch1 + 1 < WordValues THEN <<ch1 + 1, FALSE>>
    ELSE <<0, checked>>

\* handle_set: `prism set <PID> <OFFSET|CH1-CH2>`. arg is <<ch1, ch2>> for a
\* channel range that parse_channel_range recognises and <<offset>> for a plain
\* offset; a refused range sends nothing.
handle_set(pid, arg, checked) ==
    LET is_range == Len(arg) = 2
        end == RangeEnd(arg[1], checked)
        refused == is_range /\ (end[2] \/ arg[2] # end[1] \/ arg[1] < 1)
        offset == IF is_range THEN arg[1] - 1 ELSE arg[1]
        request == [NoRequest EXCEPT !.arg = arg, !.accepted = ~refused]
    IN  IF refused
        THEN /\ last' = [NoCall EXCEPT !.op = "set", !.request = request]
             /\ UNCHANGED <<client_slots, loopback_buffer>>
        ELSE send_rout_update(pid, offset, request)

\* The clients of the host-side specifications: client c is process c.
HostClients == 1 .. MAX_CLIENTS

\* SpecWire sends every (pid, offset) of the word through send_rout_update, with
\* a client joining before each update.
WirePids == (0 - (WordValues \div 2)) .. ((WordValues \div 2) - 1)

WireOffsets == 0 .. (WordValues - 1)

NextWire ==
    \/ \E c \in HostClients : add_device_client(c, c) /\ UNCHANGED <<calls, hist, device>>
    \/ /\ last.request.sent = <<>>
       /\ \E pid \in WirePids, offset \in WireOffsets :
             send_rout_update(pid, offset, NoRequest)
       /\ UNCHANGED <<calls, hist, device>>

SpecWire == Init /\ [][NextWire]_vars

\* SpecPayload writes properties with well-formed and malformed payloads: the
\* prefixes of some routing updates, and one with a byte too many.
Selectors == {kAudioPrismPropertyRoutingTable, kAudioPrismPropertyClientList}

PayloadSizes == {0, WordBytes, cfdata_ref_size, 2 * cfdata_ref_size}

PayloadPids == {-1, 1, 2}

Payloads ==
    UNION {{SubSeq(RoutingUpdateBytes(pid, offset) \o <<1>>, 1, n) :
               n \in {0, WordBytes, expected_struct_size - 1, expected_struct_size,
                      expected_struct_size + 1}} :
           pid \in PayloadPids, offset \in IOOffsets}

NextPayload ==
    \/ \E c \in HostClients : add_device_client(c, c) /\ UNCHANGED <<calls, hist, device>>
    \/ \E selector \in Selectors, size \in PayloadSizes, null \in BOOLEAN,
          bytes \in Payloads :
          /\ SetPropertyData(selector, size, null, IF null THEN <<>> ELSE bytes,
                             NoRequest)
          /\ UNCHANGED <<calls, hist, device>>

SpecPayload == Init /\ [][NextPayload]_vars

\* SpecCli runs `prism set` with channel ranges and plain offsets around the bus
\* width and at the top of the word, in builds with and without overflow checks.
ChannelInputs == (0 .. (num_channels + 1)) \cup {WordValues - 1}

SetArgs == {<<ch1, ch2>> : ch1 \in ChannelInputs, ch2 \in ChannelInputs}
               \cup {<<offset>> : offset \in ChannelInputs}

NextCli ==
    \/ \E c \in HostClients : add_device_client(c, c) /\ UNCHANGED <<calls, hist, device>>
    \/ \E pid \in PayloadPids, arg \in SetArgs, checked \in BOOLEAN :
          handle_set(pid, arg, checked) /\ UNCHANGED <<calls, hist, device>>

SpecCli == Init /\ [][NextCli]_vars

(***************************************************************************)
(* The client list on the wire: the binary property list encode_client_list *)
(* writes, and fetch_client_list and parse_client_list_value reading it.   *)
(***************************************************************************)
\* The bytes of an i64, the type of every integer the driver puts in the list.
LongBytes == 8

LongValues == ByteValues ^ LongBytes

\* v in n bytes, most significant first, as a binary property list holds integers.
BigEndianBytes(v, n) == [k \in 1 .. n |-> (v \div (ByteValues ^ (n - k))) % ByteValues]

RECURSIVE BigEndianValue(_)
BigEndianValue(b) ==
    IF b = <<>> THEN 0
    ELSE ByteValues * BigEndianValue(SubSeq(b, 1, Len(b) - 1)) + b[Len(b)]

\* plist::to_writer_binary on Value::Integer: a value that is not negative takes the
\* smallest of 1, 2, 4 and 8 bytes that holds it, a negative one 8 bytes in two's
\* complement.
IntegerBytes(v) ==
    IF v < 0 THEN BigEndianBytes(v % LongValues, LongBytes)
    ELSE IF v < ByteValues THEN BigEndianBytes(v, 1)
    ELSE IF v < ByteValues ^ 2 THEN BigEndianBytes(v, 2)
    ELSE IF v < WordValues THEN BigEndianBytes(v, WordBytes)
    ELSE BigEndianBytes(v, LongBytes)

\* Value::from_reader on an integer: 1, 2 and 4 bytes are unsigned, 8 bytes signed.
IntegerValue(b) ==
    LET u == BigEndianValue(b)
    IN  IF Len(b) = LongBytes /\ 2 * u >= LongValues THEN u - LongValues ELSE u

\* plist::to_writer_binary(&mut buf, &Value::Array(array))
to_writer_binary(array) ==
    [k \in 1 .. Len(array) |->
        [client_id |-> IntegerBytes(array[k].client_id),
         pid |-> IntegerBytes(array[k].pid),
         channel_offset |-> IntegerBytes(array[k].channel_offset)]]

\* Value::from_reader(&mut cursor)
from_reader(data) ==
    [k \in 1 .. Len(data) |->
        [client_id |-> IntegerValue(data[k].client_id),
         pid |-> IntegerValue(data[k].pid),
         channel_offset |-> IntegerValue(data[k].channel_offset)]]

\* v.as_signed_integer().unwrap_or(0) as i32
ParsedSigned(v) ==
    LET u == v % WordValues
    IN  IF 2 * u >= WordValues THEN u - WordValues ELSE u

\* Faulty variant: the unsigned fields are read as the pid is.
ParsedUnsigned_AsSigned(v) == ParsedSigned(v)

\* v.as_unsigned_integer().unwrap_or(0) as u32: a negative integer is no unsigned
\* integer.
ParsedUnsigned(v) == IF v < 0 THEN 0 ELSE v % WordValues

parse_client_list_value(value) ==
    [k \in 1 .. Len(value) |->
        [pid |-> ParsedSigned(value[k].pid),
         client_id |-> ParsedUnsigned(value[k].client_id),
         channel_offset |-> ParsedUnsigned(value[k].channel_offset)]]

\* fetch_client_list with nothing else running: the driver encodes its slots, the
\* host parses the bytes.
fetch_client_list ==
    LET data == to_writer_binary(ClientListFrom(0, <<>>))
    IN  /\ last' = [NoCall EXCEPT !.op = "fetch",
                                  !.out = parse_client_list_value(from_reader(data))]
        /\ UNCHANGED <<client_slots, loopback_buffer>>

\* SpecClients is the registry with client ids up to the top of the unsigned word
\* and pids down to the bottom of the signed one, and the client list fetched
\* between its calls.
WideClientIds == {1, 2, WordValues \div 2, WordValues - 1}

WidePids == {0 - (WordValues \div 2), -2, 1, (WordValues \div 2) - 1}

NextClients ==
    \/ \E c \in WideClientIds, p \in WidePids :
          add_device_client(c, p) /\ UNCHANGED <<calls, hist, device>>
    \/ \E c \in WideClientIds : remove_device_client(c) /\ UNCHANGED <<calls, hist, device>>
    \/ \E p \in WidePids \cup {-1}, o \in IOOffsets :
          set_property_data(p, o) /\ UNCHANGED <<calls, hist, device>>
    \/ fetch_client_list /\ UNCHANGED <<calls, hist, device>>

SpecClients == Init /\ [][NextClients]_vars

(***************************************************************************)
(* Device I/O state: start_io, stop_io, get_zero_timestamp and the         *)
(* DeviceIsRunning property.                                               *)
(***************************************************************************)
HostTimes == 1 .. MaxHostTime

\* client_count.fetch_add(1) on the unsigned counter.
CountAfterAdd(count) == (count + 1) % (2 ^ CountWidth)

\* client_count.fetch_sub(1) on the unsigned counter: 0 wraps to the largest value.
CountAfterSub(count) == (count - 1) % (2 ^ CountWidth)

\* StartIO with nothing else running: the first client anchors the clock.
start_io(now) ==
    LET prev_count == device.client_count
    IN  /\ device.starts < MaxIOCalls
        /\ device' = [device EXCEPT
                         !.client_count = CountAfterAdd(prev_count),
                         !.anchor_host_time = IF prev_count = 0 THEN now ELSE @,
                         !.starts = @ + 1]
        /\ last' = [NoCall EXCEPT !.op = "start", !.time = now]
        /\ UNCHANGED <<client_slots, loopback_buffer>>

\* StopIO with nothing else running: the last client clears the anchor.
stop_io ==
    LET prev_count == device.client_count
    IN  /\ device.stops < MaxIOCalls
        /\ device' = [device EXCEPT
                         !.client_count = CountAfterSub(prev_count),
                         !.anchor_host_time = IF prev_count = 1 THEN 0 ELSE @,
                         !.stops = @ + 1]
        /\ last' = [NoCall EXCEPT !.op = "stop"]
        /\ UNCHANGED <<client_slots, loopback_buffer>>

\* The host ticks of one frame; the driver derives it from the timebase.
host_ticks_per_frame == 1

\* What get_zero_timestamp hands back for an anchor and a clock reading: sample
\* time, host time and seed.
ZeroTimeStamp(anchor, current_host_time) ==
    LET host_ticks_per_period == host_ticks_per_frame * zero_timestamp_period
        elapsed_ticks == IF current_host_time > anchor THEN current_host_time - anchor
                         ELSE 0
        next_period == (elapsed_ticks \div host_ticks_per_period) + 1
    IN  IF anchor = 0 THEN <<0, 0, 0>>
        ELSE <<next_period * zero_timestamp_period,
               anchor + next_period * host_ticks_per_period, 1>>

get_zero_timestamp(now) ==
    /\ last' = [NoCall EXCEPT !.op = "zero_timestamp", !.time = now,
                              !.out = ZeroTimeStamp(device.anchor_host_time, now)]
    /\ UNCHANGED <<client_slots, loopback_buffer, device>>

\* kAudioDevicePropertyDeviceIsRunning: 1 when client_count > 0.
DeviceIsRunning ==
    /\ last' = [NoCall EXCEPT !.op = "is_running",
                              !.out = <<IF device.client_count > 0 THEN 1 ELSE 0>>]
    /\ UNCHANGED <<client_slots, loopback_buffer, device>>

\* SpecDevice is the device's I/O state under StartIO and StopIO calls in any
\* order, one at a time.
NextDevice ==
    \/ \E now \in HostTimes : start_io(now) /\ UNCHANGED <<calls, hist>>
    \/ stop_io /\ UNCHANGED <<calls, hist>>
    \/ \E now \in HostTimes : get_zero_timestamp(now) /\ UNCHANGED <<calls, hist>>
    \/ DeviceIsRunning /\ UNCHANGED <<calls, hist>>

SpecDevice == Init /\ [][NextDevice]_vars

\* StartIO and StopIO one atomic access at a time, on the threads of Callers; a
\* thread stops only the I/O it has started.
BeginStartIO(th) ==
    /\ Returned(th)
    /\ calls[th].op # "start"
    /\ device.starts < MaxIOCalls
    /\ calls' = [calls EXCEPT ![th] = [Idle EXCEPT !.op = "start", !.pc = "fetch_add"]]
    /\ device' = [device EXCEPT !.starts = @ + 1]
    /\ UNCHANGED <<client_slots, loopback_buffer, last, hist>>

\* prev_count = client_count.fetch_add(1)
StartFetchAdd(th) ==
    LET prev_count == device.client_count
    IN  /\ calls[th].op = "start"
        /\ calls[th].pc = "fetch_add"
        /\ device' = [device EXCEPT !.client_count = CountAfterAdd(prev_count)]
        /\ calls' = [calls EXCEPT ![th].before = prev_count,
                                  ![th].pc = IF prev_count = 0 THEN "store_anchor"
                                             ELSE "done"]
        /\ UNCHANGED <<client_slots, loopback_buffer, last, hist>>

\* anchor_host_time.store(mach_absolute_time()), by the call that saw count 0
StartStoreAnchor(th, now) ==
    /\ calls[th].op = "start"
    /\ calls[th].pc = "store_anchor"
    /\ device' = [device EXCEPT !.anchor_host_time = now]
    /\ calls' = [calls EXCEPT ![th].time = now, ![th].pc = "done"]
    /\ UNCHANGED <<client_slots, loopback_buffer, last, hist>>

BeginStopIO(th) ==
    /\ calls[th].op = "start"
    /\ calls[th].pc = "done"
    /\ calls' = [calls EXCEPT ![th] = [Idle EXCEPT !.op = "stop", !.pc = "fetch_sub"]]
    /\ device' = [device EXCEPT !.stops = @ + 1]
    /\ UNCHANGED <<client_slots, loopback_buffer, last, hist>>

\* prev_count = client_count.fetch_sub(1)
StopFetchSub(th) ==
    LET prev_count == device.client_count
    IN  /\ calls[th].op = "stop"
        /\ calls[th].pc = "fetch_sub"
        /\ device' = [device EXCEPT !.client_count = CountAfterSub(prev_count)]
        /\ calls' = [calls EXCEPT ![th].before = prev_count,
                                  ![th].pc = IF prev_count = 1 THEN "clear_anchor"
                                             ELSE "done"]
        /\ UNCHANGED <<client_slots, loopback_buffer, last, hist>>

\* anchor_host_time.store(0), by the call that saw count 1
StopClearAnchor(th) ==
    /\ calls[th].op = "stop"
    /\ calls[th].pc = "clear_anchor"
    /\ device' = [device EXCEPT !.anchor_host_time = 0]
    /\ calls' = [calls EXCEPT ![th].pc = "done"]
    /\ UNCHANGED <<client_slots, loopback_buffer, last, hist>>

\* GetZeroTimeStamp between the steps of the calls above.
ZeroTimeStampRead(now) ==
    /\ get_zero_timestamp(now)
    /\ UNCHANGED <<calls, hist>>

NextDeviceRace ==
    \/ \E th \in Callers : BeginStartIO(th)
    \/ \E th \in Callers : StartFetchAdd(th)
    \/ \E th \in Callers, now \in HostTimes : StartStoreAnchor(th, now)
    \/ \E th \in Callers : BeginStopIO(th)
    \/ \E th \in Callers : StopFetchSub(th)
    \/ \E th \in Callers : StopClearAnchor(th)
    \/ \E now \in HostTimes : ZeroTimeStampRead(now)

SpecDeviceRace == Init /\ [][NextDeviceRace]_vars

(***************************************************************************)
(* Properties of the control plane (Spec)                                  *)
(***************************************************************************)
\* What the claims call a valid routing offset: even, with offset + 1 below the
\* bus channel count.
EvenInBus(offset) == offset % 2 = 0 /\ offset + 1 < num_channels

\* C4 (idempotent leave): a leave(c) of a client id c that the slot does not hold
\* (another client has joined it, or c has already left), and a leave(c) that
\* directly repeats a leave(c), changes no field of any slot and no ring sample and
\* emits no notification.
C4_StaleLeaveNoOp ==
    [][(/\ last'.op = "leave"
        /\ last'.client # 0
        /\ \/ client_slots[SlotIndex(last'.client)].client_id # last'.client
           \/ (last.op = "leave" /\ last.client = last'.client))
       => /\ client_slots' = client_slots
          /\ loopback_buffer' = loopback_buffer
          /\ ~last'.notified]_vars

\* A leave(c) has just returned without effect while another client, with its pid
\* and a routed offset, occupies c's slot.
C4_Witness ==
    /\ last.op = "leave"
    /\ last.client # 0
    /\ ~last.notified
    /\ client_slots[SlotIndex(last.client)].client_id \notin {0, last.client}
    /\ client_slots[SlotIndex(last.client)].pid # 0
    /\ client_slots[SlotIndex(last.client)].channel_offset # 0

\* C7 (bounds rejection): a routing request, pid-targeted or broadcast, whose offset
\* is odd or has offset + 1 >= channel count returns an error status, changes no
\* field of any slot and emits no notification.
C7_InvalidOffsetRejected ==
    [][(last'.op = "route" /\ ~EvenInBus(last'.offset))
       => /\ last'.status # 0
          /\ client_slots' = client_slots
          /\ ~last'.notified]_vars

\* A request with an invalid offset has been refused while a slot it names holds a
\* client.
C7_Witness ==
    /\ last.op = "route"
    /\ ~EvenInBus(last.offset)
    /\ last.status = kAudioHardwareIllegalOperationError
    /\ \E j \in SlotIds : /\ client_slots[j].client_id # 0
                          /\ (last.pid = -1 \/ client_slots[j].pid = last.pid)

\* C8 (broadcast): a request with pid = -1 and a valid offset o sets channel_offset
\* to o in every active slot and leaves every inactive slot's fields unchanged.
C8_BroadcastActiveOnly ==
    [][(last'.op = "route" /\ last'.pid = -1 /\ EvenInBus(last'.offset))
       => \A j \in SlotIds :
            IF client_slots[j].client_id # 0
            THEN client_slots'[j].channel_offset = last'.offset
            ELSE client_slots'[j] = client_slots[j]]_vars

\* C9 (no such client): a pid-targeted request with a valid offset that matches no
\* slot (a request for pid 0 among them) returns an error status, unlike the
\* status 0 of a request that updated a slot.
C9_NoSuchClientReported ==
    (/\ last.op = "route"
     /\ EvenInBus(last.offset)
     /\ last.pid # -1
     /\ (last.pid = 0 \/ \A j \in SlotIds : client_slots[j].pid # last.pid))
    => last.status # 0

\* C10 as amended: a routing request is refused exactly when its offset is odd or
\* offset + 1 >= channel count; offset 0 is accepted, and every accepted offset
\* other than 0 is one the I/O engine writes to.
C10_RoutingOffsetRule ==
    last.op = "route" =>
        /\ (last.status = kAudioHardwareIllegalOperationError) = ~EvenInBus(last.offset)
        /\ (last.status = 0) = EvenInBus(last.offset)
        /\ (last.status = 0 /\ last.offset # 0) => ~Unrouted(last.offset)

\* A request for offset 0 has been accepted and has updated a client's slot.
C10_Witness ==
    /\ last.op = "route"
    /\ last.offset = 0
    /\ last.status = 0
    /\ last.notified
    /\ \E j \in SlotIds : client_slots[j].client_id # 0 /\ client_slots[j].pid = last.pid

\* C10 as claimed: a request is refused when its offset is odd, less than 2 or has
\* offset + 1 >= channel count, so every accepted offset is one a ClientWrite
\* writes to.
C10_SameRuleAsIO ==
    last.op = "route" =>
        /\ (last.status # 0) = (last.offset % 2 # 0 \/ last.offset < 2
                                 \/ last.offset + 1 >= num_channels)
        /\ (last.status = 0) => ~Unrouted(last.offset)

(***************************************************************************)
(* Properties of the I/O engine (SpecIO)                                   *)
(***************************************************************************)
\* The capture buffer `out` of the window [t, t + frames) carries, at channels
\* offset and offset + 1 of every frame, the samples a playback client delivered
\* for those frames.
PairReturned(out, t, frames, offset) ==
    \A i \in 0 .. (frames - 1) :
        /\ out[i * num_channels + offset + 1] = Sample(t + i, 0)
        /\ out[i * num_channels + offset + 2] = Sample(t + i, 1)

\* The capture buffer is zero at channels offset and offset + 1 of every frame.
PairZero(out, frames, offset) ==
    \A i \in 0 .. (frames - 1) :
        /\ out[i * num_channels + offset + 1] = 0
        /\ out[i * num_channels + offset + 2] = 0

\* C1 as amended (round trip): when a client routed to a pair o >= 2 (even,
\* o + 1 < channel count) has written F <= total_frames frames at time t and a
\* CaptureRead of [t, t + F) follows directly, the read returns the written samples
\* at channels o and o + 1 of every frame, provided every active slot routed to o
\* has last_write_time >= t + F.
C1_RoundTripRoutedPair ==
    (/\ last.op = "read"
     /\ last.after_write # <<>>
     /\ last.frames <= BufferFrames
     /\ last.after_write[1].offset >= 2
     /\ EvenInBus(last.after_write[1].offset)
     /\ \A j \in SlotIds :
           (/\ client_slots[j].client_id # 0
            /\ client_slots[j].channel_offset = last.after_write[1].offset)
           => client_slots[j].last_write_time >= last.time + last.frames)
    => PairReturned(last.out, last.time, last.frames, last.after_write[1].offset)

\* A read has returned a write that wrapped around the end of the ring, while a
\* second client is routed to the same pair.
C1_Witness ==
    /\ last.op = "read"
    /\ last.after_write # <<>>
    /\ last.after_write[1].offset >= 2
    /\ last.frames = BufferFrames
    /\ RingPos(last.time) = BufferFrames - 1
    /\ PairReturned(last.out, last.time, last.frames, last.after_write[1].offset)
    /\ \E j \in SlotIds :
          /\ client_slots[j].client_id \notin {0, last.after_write[1].client}
          /\ client_slots[j].channel_offset = last.after_write[1].offset

\* C1 as claimed: for every offset o a pid-targeted routing request accepts, after
\* the request has set an active client's offset to o, the client has written the
\* window [t, t + F) and a CaptureRead of that window follows directly, the read
\* returns the written samples at channels o and o + 1.
C1_RoundTripAcceptedOffset ==
    (/\ last.op = "read"
     /\ last.after_write # <<>>
     /\ last.after_write[1].after_route)
    => PairReturned(last.out, last.time, last.frames, last.after_write[1].offset)

(***************************************************************************)
(* Properties of staleness zeroing (SpecHist)                              *)
(***************************************************************************)
\* The tenant occupies its slot and is routed to a pair the I/O engine writes.
TenantRouted ==
    /\ client_slots[SlotIndex(Tenant)].client_id = Tenant
    /\ client_slots[SlotIndex(Tenant)].channel_offset >= 2
    /\ EvenInBus(client_slots[SlotIndex(Tenant)].channel_offset)

\* C5 (staleness): after a stored ClientWrite of [t0, t0 + F), F >= 1, by a client
\* and no later write by that client, a CaptureRead whose window starts strictly
\* after t0 + F returns zeros at both channels of the pair the client is routed
\* to, in every frame.
C5_StaleWindowZeroed ==
    (/\ last.op = "read"
     /\ hist # <<>>
     /\ hist[1].end > hist[1].start
     /\ last.time > hist[1].end
     /\ TenantRouted)
    => PairZero(last.out, last.frames, client_slots[SlotIndex(Tenant)].channel_offset)

C3_StaleLeaveClearsNothing ==
    \A th \in Threads, other \in Threads :
        (/\ calls[th].op = "leave" /\ calls[th].pc = "done" /\ calls[th].raced
         /\ calls[other].op = "join" /\ calls[other].pc = "done"
         /\ ~calls[other].contended
         /\ SlotIndex(calls[th].client) = SlotIndex(calls[other].client)
         /\ calls[th].client # calls[other].client)
        => LET slot == client_slots[SlotIndex(calls[other].client)]
           IN  /\ slot.client_id = calls[other].client
               /\ slot.pid = calls[other].pid
               /\ slot.channel_offset = 0

(***************************************************************************)
(* Properties of an interleaved write and read (SpecRaceIO)                *)
(***************************************************************************)
\* C2 (freshness under concurrency): when a CaptureRead of [t, t + F) has run
\* concurrently with a client's ClientWrite of the same window and its timing
\* check loaded a last_write_time >= t + F for the client's slot, one that only
\* this write can have stored, the samples it returns at the client's pair are
\* the ones the write stored.
C2_FreshMeansWritten ==
    LET w == calls[WriterThread]
        r == calls[ReaderThread]
        idx == SlotIndex(w.client)
    IN  (/\ r.op = "read" /\ r.pc = "done" /\ r.frames > 0
         /\ w.op = "write" /\ w.pc = "done" /\ w.i = 2 * w.frames
         /\ w.time = r.time /\ w.frames = r.frames
         /\ w.before < w.time + w.frames
         /\ r.seen[idx] >= r.time + r.frames
         /\ client_slots[idx].client_id = w.client
         /\ client_slots[idx].channel_offset = w.offset)
        => PairReturned(r.out, r.time, r.frames, w.offset)

(***************************************************************************)
(* Properties of the snapshot under concurrent mutation (SpecSnap)         *)
(***************************************************************************)
\* C11 (concurrent snapshot safety): whatever joins, leaves and routing requests
\* store between the loads of a snapshot, no entry of the list it builds or
\* returns has client_id = 0.
C11_NoEmptyEntry ==
    \A th \in Threads :
        calls[th].op = "snapshot" =>
            \A k \in 1 .. Len(calls[th].out) : calls[th].out[k].client_id # 0

\* A snapshot has returned an entry whose client left between its loads: the
\* entry carries the client's id and the pid the leave had already cleared.
C11_Witness ==
    /\ calls[SnapshotThread].op = "snapshot"
    /\ calls[SnapshotThread].pc = "done"
    /\ \E k \in 1 .. Len(calls[SnapshotThread].out) :
          /\ calls[SnapshotThread].out[k].client_id # 0
          /\ calls[SnapshotThread].out[k].pid = 0

(***************************************************************************)
(* Properties of cycles that wrap or exceed the ring (SpecBurst)           *)
(***************************************************************************)
\* The frames of a cycle at sample time t that lie before the end of the ring.
FramesBeforeWrap(t) == BufferFrames - RingPos(t)

\* The ring after two writes of the samples of a cycle of F frames at time t, the
\* first of k frames at t, the second of the other F - k frames at t + k.
SplitCopy(buf, t, k, F, channel_offset, Buffer(_, _)) ==
    WrapCopy(WrapCopy(buf, RingPos(t), k, channel_offset, Buffer(t, k)),
             RingPos(t + k), F - k, channel_offset, Buffer(t + k, F - k))

\* The ring a stored ClientWrite or SystemMixWrite leaves is the one its two halves,
\* split after k frames, would leave.
LastWriteSplitsAt(k) ==
    /\ last'.op = "write" =>
          loopback_buffer' = SplitCopy(loopback_buffer, last'.time, k, last'.frames,
                                       last'.offset, HostBuffer)
    /\ last'.op = "mix" =>
          loopback_buffer' = SplitCopy(loopback_buffer, last'.time, k, last'.frames,
                                       0, MixBuffer)

\* C12 as amended (wraparound): a ClientWrite or SystemMixWrite of F frames that
\* starts k frames before the end of the ring, 0 < k < F, with no more than
\* total_frames frames after the wrap, leaves the ring that a write of the first
\* k frames followed by a write of the other F - k frames at position 0 leaves.
C12_WrapEqualsSplit ==
    [][(/\ last'.op \in {"write", "mix"}
        /\ last'.stored
        /\ FramesBeforeWrap(last'.time) < last'.frames
        /\ last'.frames - FramesBeforeWrap(last'.time) <= BufferFrames)
       => LastWriteSplitsAt(FramesBeforeWrap(last'.time))]_vars

\* A client's write has wrapped: its last frame is in the ring, in the frames at
\* the start of the ring.
C12_Witness ==
    /\ last.op = "write"
    /\ last.stored
    /\ FramesBeforeWrap(last.time) < last.frames
    /\ last.frames - FramesBeforeWrap(last.time) <= BufferFrames
    /\ loopback_buffer[(last.frames - FramesBeforeWrap(last.time) - 1) * num_channels
                       + last.offset] = Sample(last.time + last.frames - 1, 0)

\* C12 as claimed: the same for every F > k, however many frames follow the wrap.
C12_WrapEqualsSplitAnyLength ==
    [][(/\ last'.op \in {"write", "mix"}
        /\ last'.stored
        /\ FramesBeforeWrap(last'.time) < last'.frames)
       => LastWriteSplitsAt(FramesBeforeWrap(last'.time))]_vars

\* C13 (no store outside the ring): whatever the sample time, the slot's offset
\* and the frame count of a ClientWrite or SystemMixWrite, also one longer than
\* the ring from its write position and the whole ring again, the samples of the
\* ring are those at the indices below total_frames * channel count.
C13_StoresInsideRing ==
    DOMAIN loopback_buffer = 0 .. (buffer_len - 1)

\* A write longer than the rest of the ring and the whole ring again has stored
\* its samples.
C13_Witness ==
    /\ last.op \in {"write", "mix"}
    /\ last.stored
    /\ last.frames > FramesBeforeWrap(last.time) + BufferFrames
    /\ \E idx \in DOMAIN loopback_buffer : loopback_buffer[idx] # 0

\* C14 (no read outside the ring): whatever the sample time and the frame count of
\* a CaptureRead, every ring index it copies from is below total_frames * channel
\* count.
C14_ReadsInsideRing ==
    last.op = "read" =>
        \A idx \in ReadIndices(last.time, last.frames) : idx < buffer_len

(***************************************************************************)
(* Properties of joins and evictions (SpecIO, SpecHist)                    *)
(***************************************************************************)
\* The slot of client d is held by another client.
Evicted(d) ==
    client_slots[SlotIndex(d)].client_id \notin {0, d}

\* C15 (join, last writer wins): a join(c, p) with c # 0 leaves slot c mod capacity
\* with client_id = c, pid = p and channel_offset = 0 whoever held it; and while
\* another client holds the slot of a client d, a ClientWrite by d is dropped (ring
\* and slots unchanged) and a leave(d) changes nothing and notifies nobody.
C15_JoinTakesSlot ==
    [][/\ (last'.op = "join" /\ last'.client # 0)
          => LET slot == client_slots'[SlotIndex(last'.client)]
             IN  /\ slot.client_id = last'.client
                 /\ slot.pid = last'.pid
                 /\ slot.channel_offset = 0
       /\ (last'.op \in {"write", "leave"} /\ Evicted(last'.client))
          => /\ client_slots' = client_slots
             /\ loopback_buffer' = loopback_buffer
             /\ ~last'.stored
             /\ ~last'.notified]_vars

\* A client that had written its pair has been evicted by a join into its slot,
\* the newcomer has been routed to a pair, and the evicted client's write has just
\* been dropped.
C15_Witness ==
    /\ last.op = "write"
    /\ ~last.matched
    /\ last.frames > 0
    /\ Evicted(last.client)
    /\ ~Unrouted(client_slots[SlotIndex(last.client)].channel_offset)
    /\ \E idx \in DOMAIN loopback_buffer : loopback_buffer[idx] # 0

\* C16 (join resets last_write_time): a client that has joined, is routed to a
\* valid pair and has completed no ClientWrite has both channels of its pair
\* zeroed by every CaptureRead whose window ends after time 0, whatever the
\* previous occupant of its slot wrote.
C16_JoinResetsWriteTime ==
    (/\ last.op = "read"
     /\ last.time + last.frames > 0
     /\ TenantRouted
     /\ hist = <<>>)
    => PairZero(last.out, last.frames, client_slots[SlotIndex(Tenant)].channel_offset)

\* C17: a ClientWrite whose client id is not the client_id held by its slot returns
\* success and changes neither the ring nor any field of any slot.
C17_MismatchedWriteDropped ==
    [][(/\ last'.op = "write"
        /\ client_slots[SlotIndex(last'.client)].client_id # last'.client)
       => /\ last'.status = 0
          /\ loopback_buffer' = loopback_buffer
          /\ client_slots' = client_slots]_vars

\* A write by an evicted client was dropped although its old slot is routed, holds
\* another client, and the write had frames to copy.
C17_Witness ==
    /\ last.op = "write" /\ last.frames > 0 /\ ~last.matched /\ ~last.stored
    /\ client_slots[SlotIndex(last.client)].client_id \notin {0, last.client}
    /\ ~Unrouted(client_slots[SlotIndex(last.client)].channel_offset)

\* The ring's samples in the system-mix channels 0 and 1.
MixChannels(buf) ==
    [idx \in {i \in DOMAIN buf : i % num_channels < 2} |-> buf[idx]]

\* C18: a ClientWrite by the slot's own client at an unrouted channel_offset leaves
\* the ring and the slot's last_write_time as they were, and no ClientWrite changes
\* channels 0 and 1 of the ring.
C18_UnroutedWriteDropped ==
    [][last'.op = "write"
       => /\ MixChannels(loopback_buffer') = MixChannels(loopback_buffer)
          /\ (/\ client_slots[SlotIndex(last'.client)].client_id = last'.client
              /\ Unrouted(client_slots[SlotIndex(last'.client)].channel_offset))
             => /\ loopback_buffer' = loopback_buffer
                /\ client_slots'[SlotIndex(last'.client)].last_write_time
                     = client_slots[SlotIndex(last'.client)].last_write_time]_vars

\* The slot's own client wrote a cycle of frames at offset 0 while the mix channels
\* held the system mix, and nothing was stored.
C18_Witness ==
    /\ last.op = "write" /\ last.frames > 0 /\ last.matched /\ ~last.stored
    /\ last.client # 0 /\ last.offset = 0
    /\ \E idx \in DOMAIN loopback_buffer : idx % num_channels < 2 /\ loopback_buffer[idx] # 0

\* C19: in every state reached by joins, leaves, pid-targeted and broadcast routing
\* requests, accepted or rejected, taken one atomic step at a time in any
\* interleaving, every slot's channel_offset is even and channel_offset + 1 is
\* below the bus channel count.
C19_OffsetsEvenInBus ==
    \A j \in SlotIds : EvenInBus(client_slots[j].channel_offset)

\* A routing request has been rejected for its offset while a slot is routed to a
\* pair above the mix and a join or a leave is between two of its stores.
C19_Witness ==
    /\ last.op = "route" /\ last.status = kAudioHardwareIllegalOperationError
    /\ \E j \in SlotIds : client_slots[j].channel_offset >= 2
    /\ \E th \in Callers : calls[th].pc \notin {"idle", "done"}

\* C20: every join notifies that the client list changed; a leave notifies exactly
\* when the slot held its client id and was cleared; a routing request notifies
\* exactly when it was accepted and was a broadcast or found a slot of its pid, so
\* every request that changed a slot notifies, and a rejected request, a
\* pid-targeted request without a matching slot and a leave that did not match
\* notify nothing and change nothing.
C20_NotifiedOnUpdate ==
    [][/\ last'.op = "join" => last'.notified
       /\ last'.op = "leave"
          => /\ last'.notified
                 <=> client_slots[SlotIndex(last'.client)].client_id = last'.client
             /\ ~last'.notified => client_slots' = client_slots
       /\ last'.op = "route"
          => /\ last'.notified
                 <=> /\ last'.status = 0
                     /\ \/ last'.pid = -1
                        \/ /\ last'.pid # 0
                           /\ \E j \in SlotIds : client_slots[j].pid = last'.pid
             /\ ~last'.notified => client_slots' = client_slots]_vars

\* An accepted pid-targeted request for a pid no slot holds has returned without a
\* notification while another client is routed to a pair above the mix.
C20_Witness ==
    /\ last.op = "route" /\ last.status = 0 /\ last.pid \notin {-1, 0}
    /\ ~last.notified /\ last.offset >= 2
    /\ \A j \in SlotIds : client_slots[j].pid # last.pid
    /\ \E j \in SlotIds : client_slots[j].client_id # 0 /\ client_slots[j].channel_offset >= 2

\* The ring indices of channels o and o + 1 in the frames a cycle of F frames at
\* sample time t covers.
CycleIndices(t, F, o) ==
    {((RingPos(t) + i) % BufferFrames) * num_channels + o + c : i \in 0 .. (F - 1), c \in {0, 1}}

\* C21: a ClientWrite that is not dropped changes no ring sample outside channels o
\* and o + 1 of the frames (t mod total_frames + i) mod total_frames, i < F, and no
\* slot field other than its own slot's last_write_time.
C21_WriteFrame ==
    [][(last'.op = "write" /\ last'.stored)
       => LET idx == SlotIndex(last'.client)
              own == CycleIndices(last'.time, last'.frames, last'.offset)
          IN  /\ DOMAIN loopback_buffer' = DOMAIN loopback_buffer
              /\ \A k \in DOMAIN loopback_buffer \ own :
                     loopback_buffer'[k] = loopback_buffer[k]
              /\ \A j \in SlotIds \ {idx} : client_slots'[j] = client_slots[j]
              /\ client_slots'[idx] =
                     [client_slots[idx] EXCEPT
                        !.last_write_time = client_slots'[idx].last_write_time]]_vars

\* A write that wraps has been stored; the ring holds the client's samples in its
\* pair and the system mix, untouched, in channels 0 and 1.
C21_Witness ==
    /\ last.op = "write" /\ last.stored /\ last.frames > 0
    /\ RingPos(last.time) + last.frames > BufferFrames
    /\ \A k \in CycleIndices(last.time, last.frames, last.offset) : loopback_buffer[k] > 0
    /\ \A k \in CycleIndices(last.time, last.frames, 0) : loopback_buffer[k] < 0

\* C22: after joins, leaves and pid-targeted routing requests, no two active slots
\* of different clients hold the same channel_offset >= 2.
C22_NoSharedPair ==
    \A i, j \in SlotIds :
       (/\ i # j
        /\ client_slots[i].client_id # 0
        /\ client_slots[j].client_id # 0
        /\ client_slots[i].client_id # client_slots[j].client_id
        /\ client_slots[i].channel_offset >= 2)
       => client_slots[i].channel_offset # client_slots[j].channel_offset

\* C23: a SystemMixWrite of F frames at sample time t changes no ring sample outside
\* channels 0 and 1 of the F frames from t mod total_frames on, wrapping, and no
\* field of any client slot, whatever the registry holds.
C23_MixFrame ==
    [][last'.op = "mix"
       => /\ DOMAIN loopback_buffer' = DOMAIN loopback_buffer
          /\ \A k \in DOMAIN loopback_buffer \ CycleIndices(last'.time, last'.frames, 0) :
                 loopback_buffer'[k] = loopback_buffer[k]
          /\ client_slots' = client_slots]_vars

\* A mix write that wraps has been made while the client is routed to the pair at
\* offset 2, has written, and its samples are still in every frame of its pair.
C23_Witness ==
    /\ last.op = "mix" /\ last.frames > 0
    /\ RingPos(last.time) + last.frames > BufferFrames
    /\ client_slots[SlotIndex(Tenant)].client_id = Tenant
    /\ client_slots[SlotIndex(Tenant)].channel_offset = 2
    /\ client_slots[SlotIndex(Tenant)].last_write_time > 0
    /\ \A k \in CycleIndices(0, BufferFrames, 2) : loopback_buffer[k] > 0
    /\ \A k \in CycleIndices(last.time, last.frames, 0) : loopback_buffer[k] < 0

\* C24: a slot's last_write_time is stored only by the last step of a ClientWrite
\* that was not dropped, after that call's 2F sample stores, and the value stored
\* is the call's t + F, whether or not it is below the value it replaces.
C24_StampAfterCopy ==
    [][LET call == calls[WriterThread]
           idx == SlotIndex(call.client)
           stamping == /\ call.op = "write" /\ call.pc = "stamp"
                       /\ calls'[WriterThread].pc = "done"
       IN  /\ \A j \in SlotIds :
                 client_slots'[j].last_write_time # client_slots[j].last_write_time
                 => stamping /\ j = idx
           /\ stamping
              => /\ call.i = 2 * call.frames
                 /\ client_slots'[idx].last_write_time = call.time + call.frames
                 /\ loopback_buffer' = loopback_buffer]_vars

\* A write has completed whose t + F is below the last_write_time it found.
C24_Witness ==
    /\ last.op = "write" /\ last.stored /\ last.frames > 0
    /\ calls[WriterThread].pc = "done"
    /\ client_slots[SlotIndex(last.client)].last_write_time = last.time + last.frames
    /\ last.time + last.frames < calls[WriterThread].before

\* The ring sample at channel c of the frame that frame i of a read at t names.
RingAt(t, i, c) == loopback_buffer[((RingPos(t) + i) % BufferFrames) * num_channels + c]

\* C25: every sample a CaptureRead returns at frame i, channel c is the ring's value
\* at frame (read_pos + i) mod total_frames, channel c, or 0; it differs from the
\* ring only in the pair of an active slot with channel_offset >= 2, so channels 0
\* and 1 are returned as the ring holds them.
C25_ReadOnlySuppresses ==
    last.op = "read"
    => \A i \in 0 .. (last.frames - 1), c \in 0 .. (num_channels - 1) :
          LET got == last.out[i * num_channels + c + 1]
          IN  /\ got \in {RingAt(last.time, i, c), 0}
              /\ got # RingAt(last.time, i, c)
                 => \E j \in SlotIds :
                       /\ client_slots[j].client_id # 0
                       /\ client_slots[j].channel_offset >= 2
                       /\ c \in {client_slots[j].channel_offset,
                                  client_slots[j].channel_offset + 1}

\* C26: a ClientWrite aims every sample store of the call at the channel_offset it
\* loaded once, also when a routing request stores another offset into the slot
\* between two of its stores, and the offset it loads is the one the slot holds at
\* that moment, so a write that starts after a routing store uses the new offset.
C26_OneOffsetPerWrite ==
    [][LET call == calls[WriterThread]
           after == calls'[WriterThread]
       IN  /\ after.op = "write"
              => \A k \in 1 .. Len(after.seen) : after.seen[k] = after.offset
           /\ (call.pc = "load_offset" /\ after.pc # "load_offset")
              => after.offset = client_slots[SlotIndex(call.client)].channel_offset
           /\ (call.pc \in {"copy", "stamp"} /\ after.op = "write")
              => after.offset = call.offset]_vars

\* A write of two frames has completed into the pair at offset 2 although a routing
\* store moved the slot to offset 0 between its sample stores: all four samples are
\* in the pair, none in channels 0 and 1.
C26_Witness ==
    /\ last.op = "write" /\ last.stored /\ last.frames = 2 /\ last.offset = 2
    /\ calls[WriterThread].pc = "done" /\ calls[WriterThread].raced
    /\ client_slots[SlotIndex(Tenant)].channel_offset = 0
    /\ \A k \in CycleIndices(last.time, 2, 2) : loopback_buffer[k] > 0
    /\ \A k \in CycleIndices(last.time, 2, 0) : loopback_buffer[k] = 0

\* C27: an accepted pid-targeted routing request (pid, o) leaves channel_offset o in
\* every slot whose occupant has that pid, and changes no channel_offset of a slot
\* with another pid, no client_id, pid or last_write_time, and no ring sample.
C27_PidRoutingFrame ==
    [][(last'.op = "route" /\ last'.pid # -1 /\ last'.status = 0)
       => /\ \A j \in SlotIds :
                /\ (client_slots[j].client_id # 0 /\ client_slots[j].pid = last'.pid)
                   => client_slots'[j].channel_offset = last'.offset
                /\ client_slots[j].pid # last'.pid
                   => client_slots'[j].channel_offset = client_slots[j].channel_offset
                /\ client_slots'[j].client_id = client_slots[j].client_id
                /\ client_slots'[j].pid = client_slots[j].pid
                /\ client_slots'[j].last_write_time = client_slots[j].last_write_time
          /\ loopback_buffer' = loopback_buffer]_vars

\* A request for a pid has moved both slots, held by two clients of that process,
\* to the pair at offset 2.
C27_Witness ==
    /\ last.op = "route" /\ last.status = 0 /\ last.pid \in Pids /\ last.offset = 2
    /\ \A j \in SlotIds : /\ client_slots[j].client_id # 0
                           /\ client_slots[j].pid = last.pid
                           /\ client_slots[j].channel_offset = 2

\* C28: when the only routing requests are for the pid of the first client, and the
\* second client, of another pid, has joined the slot after the first client's join
\* had returned, then once the second join and the request have returned the slot
\* the second client owns has channel_offset 0.
C28_JoinNotRoutedByOldPid ==
    LET q == RaceClient("b")
        slot == client_slots[SlotIndex(q)]
    IN  (/\ calls["a"].op = "join" /\ calls["a"].pc = "done"
         /\ calls["b"].op = "join" /\ calls["b"].pc = "done"
         /\ ~calls["b"].contended
         /\ Returned(RouterThread)
         /\ slot.client_id = q /\ slot.pid = q)
        => slot.channel_offset = 0

\* The slots a snapshot lists: those whose client_id is not 0.
ActiveSlots == {j \in SlotIds : client_slots[j].client_id # 0}

\* C29: a snapshot with nothing else running returns one entry for each slot whose
\* client_id is not 0 and none for any other, in increasing slot order, each with
\* the slot's current pid, client_id and channel_offset, and changes neither a slot
\* nor the ring.
C29_SnapshotExact ==
    [][last'.op = "snapshot"
       => /\ client_slots' = client_slots
          /\ loopback_buffer' = loopback_buffer
          /\ Len(last'.out) = Cardinality(ActiveSlots)
          /\ \A j \in ActiveSlots :
                LET entry == last'.out[Cardinality({i \in ActiveSlots : i <= j})]
                IN  /\ entry.client_id = client_slots[j].client_id
                    /\ entry.pid = client_slots[j].pid
                    /\ entry.channel_offset = client_slots[j].channel_offset]_vars

\* A snapshot of two clients of different processes, the second slot routed to the
\* pair at offset 2 and the first unrouted, has returned two entries.
C29_Witness ==
    /\ last.op = "snapshot" /\ Len(last.out) = 2
    /\ last.out[1].pid # last.out[2].pid
    /\ last.out[1].channel_offset = 0 /\ last.out[2].channel_offset = 2
    /\ last.out[1].client_id = client_slots[0].client_id
    /\ last.out[2].client_id = client_slots[1].client_id

\* C30: the slot a client's matching leave has cleared is still inactive (client_id
\* 0, pid 0, channel_offset 0) after the next call, unless that call is a join into
\* it.
C30_LeftSlotStaysInactive ==
    [][LET idx == SlotIndex(last.client)
       IN  (/\ last.op = "leave" /\ last.notified /\ last.client # 0
            /\ ~(last'.op = "join" /\ SlotIndex(last'.client) = idx))
           => /\ client_slots'[idx].client_id = 0
              /\ client_slots'[idx].pid = 0
              /\ client_slots'[idx].channel_offset = 0]_vars

\* C31: a join with client_id 0 leaves every field of every slot unchanged and emits
\* no notification.
C31_JoinZeroWritesNothing ==
    [][(last'.op = "join" /\ last'.client = 0)
       => /\ client_slots' = client_slots
          /\ ~last'.notified]_vars

\* C32: when no active slot is routed to a pair (o, o + 1), o >= 2, because the
\* clients that wrote it have left or have been routed elsewhere, a CaptureRead
\* returns at that pair, in every frame, either 0 or the sample written for that
\* very frame of the window, never a sample written for another time.
C32_LeftPairReadsZero ==
    last.op = "read"
    => \A o \in {x \in Offsets : x >= 2 /\ EvenInBus(x)} :
          (\A j \in SlotIds : client_slots[j].client_id = 0
                               \/ client_slots[j].channel_offset # o)
          => \A i \in 0 .. (last.frames - 1), ch \in {0, 1} :
                last.out[i * num_channels + o + ch + 1] \in {0, Sample(last.time + i, ch)}

\* No sample has been stored in the ring since construction.
RingSilent == \A k \in DOMAIN loopback_buffer : loopback_buffer[k] = 0

\* C33: before the first call every slot is inert and every ring sample is 0, and a
\* CaptureRead of any window made while the ring is still as constructed returns
\* zeros only.
C33_InertAtConstruction ==
    /\ last.op = "none"
       => /\ \A j \in SlotIds : client_slots[j] = ClientSlot
          /\ RingSilent
          /\ DOMAIN loopback_buffer = 0 .. (buffer_len - 1)
    /\ (last.op = "read" /\ RingSilent)
       => \A k \in 1 .. Len(last.out) : last.out[k] = 0

\* C34: a CaptureRead changes no ring sample and no slot field, and a CaptureRead
\* that follows a CaptureRead of the same window, with no other call in between,
\* returns the same output.
C34_ReadRepeats ==
    [][last'.op = "read"
       => /\ loopback_buffer' = loopback_buffer
          /\ client_slots' = client_slots
          /\ (last.op = "read" /\ last.time = last'.time /\ last.frames = last'.frames)
             => last'.out = last.out]_vars

\* C35: once every StartIO and StopIO call has returned and client_count > 0,
\* anchor_host_time is nonzero, and GetZeroTimeStamp then answers with a nonzero
\* sample time, a nonzero host time and seed 1.
C35_RunningHasAnchor ==
    ((\A th \in Callers : Returned(th)) /\ device.client_count > 0)
        => /\ device.anchor_host_time # 0
           /\ \A now \in HostTimes :
                 LET out == ZeroTimeStamp(device.anchor_host_time, now)
                 IN  out[1] # 0 /\ out[2] # 0 /\ out[3] = 1

\* C36: client_count equals the StartIO calls minus the StopIO calls and never
\* wraps below zero, and DeviceIsRunning reports 1 exactly when a StartIO is
\* unmatched.
C36_CountIsStartsMinusStops ==
    /\ device.client_count = device.starts - device.stops
    /\ last.op = "is_running"
         => ((last.out = <<1>>) <=> (device.starts > device.stops))

\* A property write that the driver must refuse: a selector other than the routing
\* property, or a routing write whose payload size is not that of a CFDataRef,
\* whose CFDataRef is null or whose data is shorter than the routing update.
Malformed(request) ==
    \/ request.selector # kAudioPrismPropertyRoutingTable
    \/ request.size # cfdata_ref_size
    \/ request.null
    \/ Len(request.bytes) < expected_struct_size

\* C37: a malformed routing write returns an error status, changes no slot and
\* emits no notification; a write to any other selector returns the
\* unknown-property error and changes nothing.
C37_MalformedWriteRefused ==
    [][(last'.op \in {"set_property", "route"} /\ Malformed(last'.request))
          => /\ last'.status # 0
             /\ last'.request.selector # kAudioPrismPropertyRoutingTable
                  => last'.status = kAudioHardwareUnknownPropertyError
             /\ ~last'.notified
             /\ client_slots' = client_slots
             /\ loopback_buffer' = loopback_buffer]_vars

C37_Witness ==
    /\ last.op = "set_property"
    /\ last.request.selector = kAudioPrismPropertyRoutingTable
    /\ last.request.size = cfdata_ref_size
    /\ ~last.request.null
    /\ Len(last.request.bytes) = expected_struct_size - 1
    /\ last.status = kAudioHardwareBadPropertySizeError
    /\ \E s \in SlotIds : client_slots[s].client_id # 0 /\ client_slots[s].channel_offset # 0

\* C38: every channel range CH1-CH2 that `prism set` accepts is sent as offset
\* CH1 - 1, and when CH2 is within the bus that offset passes the driver's routing
\* validation.
C38_AcceptedRangeIsValid ==
    (last.request.accepted /\ Len(last.request.arg) = 2)
        => /\ last.op = "route"
           /\ last.offset = last.request.arg[1] - 1
           /\ last.request.arg[2] <= num_channels
                => last.status # kAudioHardwareIllegalOperationError

\* C39: the 8 bytes send_rout_update produces for (pid, offset) are decoded by the
\* driver's routing write to the same (pid, offset), for every pid of the signed
\* word, -1 included, and every offset of the unsigned word.
C39_WireRoundTrip ==
    last.request.sent # <<>>
        => /\ last.op = "route"
           /\ Len(last.request.bytes) = expected_struct_size
           /\ <<last.pid, last.offset>> = last.request.sent

C39_Witness ==
    /\ last.op = "route"
    /\ last.request.sent = <<-1, WordValues - 2>>
    /\ last.pid = -1
    /\ last.offset = WordValues - 2

\* C40: parsing the encoded client list yields, in slot order, exactly the pid,
\* client_id and channel_offset of every active slot, also when a pid is negative
\* or a client_id is above the largest signed word.
C40_ClientListRoundTrip ==
    last.op = "fetch"
        => /\ Len(last.out) = Cardinality(ActiveSlots)
           /\ \A j \in ActiveSlots :
                 LET entry == last.out[Cardinality({i \in ActiveSlots : i <= j})]
                 IN  /\ entry.pid = client_slots[j].pid
                     /\ entry.client_id = client_slots[j].client_id
                     /\ entry.channel_offset = client_slots[j].channel_offset

\* A fetched list of two entries: a client id above the largest signed word with a
\* negative pid, and a routed client.
C40_Witness ==
    /\ last.op = "fetch" /\ Len(last.out) = 2
    /\ last.out[2].client_id = WordValues - 1
    /\ last.out[2].pid = 0 - (WordValues \div 2)
    /\ last.out[1].client_id = 2
    /\ last.out[1].channel_offset = 2

====
